---- MODULE Spec2Model ----
(***************************************************************************)
(* A model of resctl-demo's document engine (src/resctl-demo/src/doc.rs):  *)
(* the command interpreter (exec_one_cmd, exec_cmd, exec_toggle,           *)
(* exec_knob), the widget reconciliation (refresh_cur_doc), the navigation *)
(* (show_doc, post_layout, DOC_HIST) and the corpus loader (load_docs).    *)
(*                                                                         *)
(* Every handler is one action.  A handler's effect is computed by         *)
(* operators that mirror the functions of doc.rs; where the agent decides  *)
(* an outcome (sync()/apply() failing, a benchmark counter advancing) the  *)
(* operator yields the SET of possible resulting machine states and the    *)
(* action picks one of them.                                               *)
(*                                                                         *)
(* f64 ratios are modelled as exact rationals <<n, d>>.                    *)
(***************************************************************************)
EXTENDS Integers, Sequences, FiniteSets, TLC

VARIABLES
    st,       \* the machine: CMD_STATE, the id of CUR_DOC, DOC_HIST, the view, ...
    docs,     \* DOCS: the document registry, or "unloaded" / "panic"
    sources,  \* index::SOURCES: the corpus handed to load_docs
    ref,      \* a second machine, run side by side in the comparison scenarios
    start,    \* CMD_STATE as it was when the scenario started
    trail     \* the inputs of the handlers run so far in the scenario

vars == <<st, docs, sources, ref, start, trail>>

-----------------------------------------------------------------------------
(* Bounds of the model *)

\* benchmark sequence numbers reported by the agent stay within 0..MaxSeq
MaxSeq == 1

\* DOC_HIST holds at most MaxHist entries in the free-navigation specification
MaxHist == 3

-----------------------------------------------------------------------------
(* Numbers *)

\* std::u64::MAX, the "loop forever" request.  TLC's integers are 32 bits wide,
\* so the largest of them stands for it; the sequence numbers stay far below.
U64_MAX == 2147483647

\* f64 as an exact rational
Rat(n, d) == <<n, d>>
Num(v) == v[1]
Den(v) == v[2]
ZERO == Rat(0, 1)
ONE == Rat(1, 1)

\* v < 1.0
LtOne(v) == Num(v) < Den(v)

\* f64::round of a non-negative n/d: half away from zero
RoundDiv(n, d) == (2 * n + d) \div (2 * d)

\* Option<f64>::None
None == <<>>

-----------------------------------------------------------------------------
(* RdSwitch, RdKnob, RdReset, RdCmd *)

Sw(kind) == <<kind, "", "">>
Sideload(tag, id) == <<"Sideload", tag, id>>
Sysload(tag, id) == <<"Sysload", tag, id>>

SimpleSwitches ==
    { Sw(k) : k \in {"BenchHashd", "BenchHashdLoop", "BenchIoCost", "BenchNeeded",
                     "HashdA", "HashdB", "CpuResCtl", "MemResCtl", "IoResCtl",
                     "Oomd", "OomdWorkMemPressure", "OomdWorkSenpai",
                     "OomdSysMemPressure", "OomdSysSenpai"} }

RdKnob ==
    {"HashdALoad", "HashdBLoad", "HashdALatTargetPct", "HashdBLatTargetPct",
     "HashdALatTarget", "HashdBLatTarget", "HashdAMem", "HashdBMem",
     "HashdAFileAddrStdev", "HashdAAnonAddrStdev", "HashdBFileAddrStdev",
     "HashdBAnonAddrStdev", "HashdAFile", "HashdBFile", "HashdAFileMax",
     "HashdBFileMax", "HashdALogBps", "HashdBLogBps", "HashdAWeight",
     "HashdBWeight", "SysCpuRatio", "SysIoRatio", "MemMargin", "Balloon",
     "CpuHeadroom"}

RdReset ==
    {"Benches", "Hashds", "HashdParams", "Sideloads", "Sysloads", "ResCtl",
     "ResCtlParams", "Oomd", "Graph", "Secondaries", "AllWorkloads",
     "Protections", "All", "Params", "AllWithParams", "Prep"}

On(sw) == [op |-> "On", sw |-> sw]
Off(sw) == [op |-> "Off", sw |-> sw]
Toggle(sw) == [op |-> "Toggle", sw |-> sw]
Knob(knob, val) == [op |-> "Knob", knob |-> knob, val |-> val]
Graph(tag) == [op |-> "Graph", tag |-> tag]
Reset(reset) == [op |-> "Reset", reset |-> reset]
Jump(target) == [op |-> "Jump", target |-> target]
Group(group) == [op |-> "Group", group |-> group]

-----------------------------------------------------------------------------
(* CmdState and its collaborators *)

\* HashdCmd::default() without the activity flag
DFL_HASHD ==
    [rps_target_ratio |-> Rat(1, 2), lat_target_pct |-> Rat(1, 1),
     lat_target |-> Rat(1, 10), mem_ratio |-> None, file_addr_stdev |-> None,
     anon_addr_stdev |-> None, file_ratio |-> Rat(3, 20),
     file_max_ratio |-> Rat(1, 4), log_bps |-> 2, weight |-> Rat(1, 1)]

HashdCmd(active, p) ==
    [active |-> active, rps_target_ratio |-> p.rps_target_ratio,
     lat_target_pct |-> p.lat_target_pct, lat_target |-> p.lat_target,
     mem_ratio |-> p.mem_ratio, file_addr_stdev |-> p.file_addr_stdev,
     anon_addr_stdev |-> p.anon_addr_stdev, file_ratio |-> p.file_ratio,
     file_max_ratio |-> p.file_max_ratio, log_bps |-> p.log_bps,
     weight |-> p.weight]

\* SliceConfig::DFL_SYS_CPU_RATIO, DFL_SYS_IO_RATIO, dfl_mem_margin()/total_memory(),
\* Cmd::default().balloon_ratio, Cmd::default().sideloader.cpu_headroom
DFL_RESCTL_PARAMS ==
    [sys_cpu_ratio |-> Rat(1, 100), sys_io_ratio |-> Rat(1, 20),
     mem_margin |-> Rat(1, 4), balloon_ratio |-> ZERO,
     cpu_headroom |-> Rat(1, 5)]

\* AGENT_FILES.bench().hashd.mem_frac
MEM_FRAC == Rat(1, 2)

\* rd_hashd_intf::Params::default().file_addr_stdev_ratio / anon_addr_stdev_ratio
DFL_FILE_ADDR_STDEV == Rat(1, 4)
DFL_ANON_ADDR_STDEV == Rat(1, 4)

EmptyMap == [t \in {} |-> ""]

\* a slip: entry(tag).or_insert(id), which keeps the id of a tag already there
MapInsert_KeepOld(m, tag, id) ==
    [t \in DOMAIN m \cup {tag} |-> IF t \in DOMAIN m THEN m[t] ELSE id]

MapInsert(m, tag, id) == [t \in DOMAIN m \cup {tag} |-> IF t = tag THEN id ELSE m[t]]

\* a slip: clear() in place of remove(tag)
MapRemove_ClearsAll(m, tag) == [t \in {} |-> ""]

MapRemove(m, tag) == [t \in DOMAIN m \ {tag} |-> m[t]]

\* CmdState as the demo starts it
DefaultCmdState ==
    [bench_hashd_cur |-> 0, bench_hashd_next |-> 0,
     bench_iocost_cur |-> 0, bench_iocost_next |-> 0,
     hashd |-> [i \in 0..1 |-> HashdCmd(FALSE, DFL_HASHD)],
     sideloads |-> EmptyMap, sysloads |-> EmptyMap,
     cpu |-> TRUE, mem |-> TRUE, io |-> TRUE,
     oomd |-> TRUE, oomd_work_mempress |-> TRUE, oomd_work_senpai |-> FALSE,
     oomd_sys_mempress |-> TRUE, oomd_sys_senpai |-> FALSE,
     sys_cpu_ratio |-> DFL_RESCTL_PARAMS.sys_cpu_ratio,
     sys_io_ratio |-> DFL_RESCTL_PARAMS.sys_io_ratio,
     mem_margin |-> DFL_RESCTL_PARAMS.mem_margin,
     balloon_ratio |-> DFL_RESCTL_PARAMS.balloon_ratio,
     cpu_headroom |-> DFL_RESCTL_PARAMS.cpu_headroom]

-----------------------------------------------------------------------------
(* exec_one_cmd: the match over the command *)

\* RdCmd::On(sw) | RdCmd::Off(sw): match sw { ... }
SwitchWrite(cs, sw, is_on) ==
    CASE sw[1] = "BenchHashd" ->
           [cs EXCEPT !.bench_hashd_next = cs.bench_hashd_cur + (IF is_on THEN 1 ELSE 0)]
      [] sw[1] = "BenchHashdLoop" ->
           [cs EXCEPT !.bench_hashd_next = IF is_on THEN U64_MAX ELSE cs.bench_hashd_cur]
      [] sw[1] = "BenchIoCost" ->
           [cs EXCEPT !.bench_iocost_next = cs.bench_iocost_cur + (IF is_on THEN 1 ELSE 0)]
      [] sw[1] = "BenchNeeded" ->
           [cs EXCEPT !.bench_hashd_next = IF cs.bench_hashd_cur = 0 THEN 1 ELSE @,
                      !.bench_iocost_next = IF cs.bench_iocost_cur = 0 THEN 1 ELSE @]
      [] sw[1] = "HashdA" -> [cs EXCEPT !.hashd[0].active = is_on]
      [] sw[1] = "HashdB" -> [cs EXCEPT !.hashd[1].active = is_on]
      [] sw[1] = "Sideload" ->
           [cs EXCEPT !.sideloads = IF is_on THEN MapInsert(@, sw[2], sw[3])
                                             ELSE MapRemove(@, sw[2])]
      [] sw[1] = "Sysload" ->
           [cs EXCEPT !.sysloads = IF is_on THEN MapInsert(@, sw[2], sw[3])
                                            ELSE MapRemove(@, sw[2])]
      [] sw[1] = "CpuResCtl" -> [cs EXCEPT !.cpu = is_on]
      [] sw[1] = "MemResCtl" -> [cs EXCEPT !.mem = is_on]
      [] sw[1] = "IoResCtl" -> [cs EXCEPT !.io = is_on]
      [] sw[1] = "Oomd" -> [cs EXCEPT !.oomd = is_on]
      [] sw[1] = "OomdWorkMemPressure" -> [cs EXCEPT !.oomd_work_mempress = is_on]
      [] sw[1] = "OomdWorkSenpai" -> [cs EXCEPT !.oomd_work_senpai = is_on]
      [] sw[1] = "OomdSysMemPressure" -> [cs EXCEPT !.oomd_sys_mempress = is_on]
      [] sw[1] = "OomdSysSenpai" -> [cs EXCEPT !.oomd_sys_senpai = is_on]

\* Some(if *val < 1.0 { *val } else { 100.0 })
AddrStdevStore(val) == IF LtOne(val) THEN val ELSE Rat(100, 1)

\* (wbps * *val).round() as u64
LogBpsStore(wbps, val) ==
    IF Num(val) < 0 THEN 0 ELSE RoundDiv(wbps * Num(val), Den(val))

\* RdCmd::Knob(knob, val): match knob { ... }
KnobWrite(cs, knob, val, wbps) ==
    CASE knob = "HashdALoad" -> [cs EXCEPT !.hashd[0].rps_target_ratio = val]
      [] knob = "HashdBLoad" -> [cs EXCEPT !.hashd[1].rps_target_ratio = val]
      [] knob = "HashdALatTargetPct" -> [cs EXCEPT !.hashd[0].lat_target_pct = val]
      [] knob = "HashdBLatTargetPct" -> [cs EXCEPT !.hashd[1].lat_target_pct = val]
      [] knob = "HashdALatTarget" -> [cs EXCEPT !.hashd[0].lat_target = val]
      [] knob = "HashdBLatTarget" -> [cs EXCEPT !.hashd[1].lat_target = val]
      [] knob = "HashdAMem" -> [cs EXCEPT !.hashd[0].mem_ratio = val]
      [] knob = "HashdBMem" -> [cs EXCEPT !.hashd[1].mem_ratio = val]
      [] knob = "HashdAFileAddrStdev" ->
           [cs EXCEPT !.hashd[0].file_addr_stdev = AddrStdevStore(val)]
      [] knob = "HashdAAnonAddrStdev" ->
           [cs EXCEPT !.hashd[0].anon_addr_stdev = AddrStdevStore(val)]
      [] knob = "HashdBFileAddrStdev" ->
           [cs EXCEPT !.hashd[1].file_addr_stdev = AddrStdevStore(val)]
      [] knob = "HashdBAnonAddrStdev" ->
           [cs EXCEPT !.hashd[1].anon_addr_stdev = AddrStdevStore(val)]
      [] knob = "HashdAFile" -> [cs EXCEPT !.hashd[0].file_ratio = val]
      [] knob = "HashdBFile" -> [cs EXCEPT !.hashd[1].file_ratio = val]
      [] knob = "HashdAFileMax" -> [cs EXCEPT !.hashd[0].file_max_ratio = val]
      [] knob = "HashdBFileMax" -> [cs EXCEPT !.hashd[1].file_max_ratio = val]
      [] knob = "HashdALogBps" -> [cs EXCEPT !.hashd[0].log_bps = LogBpsStore(wbps, val)]
      [] knob = "HashdBLogBps" -> [cs EXCEPT !.hashd[1].log_bps = LogBpsStore(wbps, val)]
      [] knob = "HashdAWeight" -> [cs EXCEPT !.hashd[0].weight = val]
      [] knob = "HashdBWeight" -> [cs EXCEPT !.hashd[1].weight = val]
      [] knob = "SysCpuRatio" -> [cs EXCEPT !.sys_cpu_ratio = val]
      [] knob = "SysIoRatio" -> [cs EXCEPT !.sys_io_ratio = val]
      [] knob = "MemMargin" -> [cs EXCEPT !.mem_margin = val]
      [] knob = "Balloon" -> [cs EXCEPT !.balloon_ratio = val]
      [] knob = "CpuHeadroom" -> [cs EXCEPT !.cpu_headroom = val]

\* The reset closures.  Each works on the pair of CmdState and the main graph
\* (siv), as the closures of exec_one_cmd do.
reset_benches(m) ==
    [m EXCEPT !.cs.bench_hashd_next = m.cs.bench_hashd_cur,
              !.cs.bench_iocost_next = m.cs.bench_iocost_cur]

reset_hashds(m) ==
    [m EXCEPT !.cs.hashd[0].active = FALSE, !.cs.hashd[1].active = FALSE]

\* a slip: HashdCmd { ..Default::default() } without the active: field
reset_hashd_params_Inactive(m) ==
    [m EXCEPT !.cs.hashd = [i \in 0..1 |-> HashdCmd(FALSE, DFL_HASHD)]]

reset_hashd_params(m) ==
    [m EXCEPT !.cs.hashd = [i \in 0..1 |-> HashdCmd(m.cs.hashd[i].active, DFL_HASHD)]]

reset_sideloads(m) == [m EXCEPT !.cs.sideloads = EmptyMap]

reset_sysloads(m) == [m EXCEPT !.cs.sysloads = EmptyMap]

reset_secondaries(m) == reset_sysloads(reset_sideloads(m))

reset_resctl(m) == [m EXCEPT !.cs.cpu = TRUE, !.cs.mem = TRUE, !.cs.io = TRUE]

reset_resctl_params(m) ==
    [m EXCEPT !.cs.sys_cpu_ratio = DFL_RESCTL_PARAMS.sys_cpu_ratio,
              !.cs.sys_io_ratio = DFL_RESCTL_PARAMS.sys_io_ratio,
              !.cs.mem_margin = DFL_RESCTL_PARAMS.mem_margin,
              !.cs.balloon_ratio = DFL_RESCTL_PARAMS.balloon_ratio,
              !.cs.cpu_headroom = DFL_RESCTL_PARAMS.cpu_headroom]

reset_oomd(m) ==
    [m EXCEPT !.cs.oomd = TRUE, !.cs.oomd_work_mempress = TRUE,
              !.cs.oomd_work_senpai = FALSE, !.cs.oomd_sys_mempress = TRUE,
              !.cs.oomd_sys_senpai = FALSE]

\* clear_main_graph(siv)
reset_graph(m) == [m EXCEPT !.graph = ""]

reset_all(m) ==
    reset_graph(reset_oomd(reset_resctl(reset_secondaries(reset_hashds(reset_benches(m))))))

reset_prep(m) ==
    reset_graph(reset_resctl_params(reset_hashd_params(
        reset_oomd(reset_resctl(reset_secondaries(m))))))

\* a slip: AllWithParams without its reset_resctl_params
reset_all_with_params_NoResCtl(m) == reset_hashd_params(reset_all(m))

\* RdReset::AllWithParams => { reset_all; reset_hashd_params; reset_resctl_params }
reset_all_with_params(m) == reset_resctl_params(reset_hashd_params(reset_all(m)))

\* RdCmd::Reset(reset): match reset { ... }
ResetWrite(m, reset) ==
    CASE reset = "Benches" -> reset_benches(m)
      [] reset = "Hashds" -> reset_hashds(m)
      [] reset = "HashdParams" -> reset_hashd_params(m)
      [] reset = "Sideloads" -> reset_sideloads(m)
      [] reset = "Sysloads" -> reset_sysloads(m)
      [] reset = "ResCtl" -> reset_resctl(m)
      [] reset = "ResCtlParams" -> reset_resctl_params(m)
      [] reset = "Oomd" -> reset_oomd(m)
      [] reset = "Graph" -> reset_graph(m)
      [] reset = "Secondaries" -> reset_secondaries(m)
      [] reset = "AllWorkloads" -> reset_secondaries(reset_hashds(m))
      [] reset = "Protections" -> reset_oomd(reset_resctl(m))
      [] reset = "All" -> reset_all(m)
      [] reset = "Params" -> reset_resctl_params(reset_hashd_params(m))
      [] reset = "AllWithParams" -> reset_all_with_params(m)
      [] reset = "Prep" -> reset_prep(m)

\* enum_iterator::all::<GraphTag>() as debug names
GraphTags == {"HashdA", "HashdB", "RpsLat"}

\* RdCmd::Graph(tag_name): set_main_graph / clear_main_graph; the unwrap() of
\* an unknown tag panics
GraphWrite(m, tag_name) ==
    IF tag_name = "" THEN [m EXCEPT !.graph = ""]
    ELSE IF tag_name \in GraphTags THEN [m EXCEPT !.graph = tag_name]
    ELSE [m EXCEPT !.status = "panic"]


\* a slip in exec_one_cmd: is_on computed as true for Off as well
MatchCmd_OffAsOn(m, cmd) ==
    CASE cmd.op \in {"On", "Off"} -> [m EXCEPT !.cs = SwitchWrite(m.cs, cmd.sw, TRUE)]
      [] cmd.op = "Knob" -> [m EXCEPT !.cs = KnobWrite(m.cs, cmd.knob, cmd.val, m.wbps)]
      [] cmd.op = "Graph" -> GraphWrite(m, cmd.tag)
      [] cmd.op = "Reset" -> ResetWrite(m, cmd.reset)
      [] OTHER -> [m EXCEPT !.status = "panic"]

\* match cmd { ... } of exec_one_cmd, for the commands it interprets
MatchCmd(m, cmd) ==
    CASE cmd.op = "On" -> [m EXCEPT !.cs = SwitchWrite(m.cs, cmd.sw, TRUE)]
      [] cmd.op = "Off" -> [m EXCEPT !.cs = SwitchWrite(m.cs, cmd.sw, FALSE)]
      [] cmd.op = "Knob" -> [m EXCEPT !.cs = KnobWrite(m.cs, cmd.knob, cmd.val, m.wbps)]
      [] cmd.op = "Graph" -> GraphWrite(m, cmd.tag)
      [] cmd.op = "Reset" -> ResetWrite(m, cmd.reset)
      [] OTHER -> [m EXCEPT !.status = "panic"]

-----------------------------------------------------------------------------
(* RdDoc and the rendered view *)

\* get_layout().doc.x - 2 of render_cmd
WIDTH == 24

\* AGENT_FILES.bench().iocost.model.wbps
WBPS == 8

\* AGENT_FILES.bench().hashd.mem_size and total_memory()
MEM_SIZE == 64
TOTAL_MEMORY == 128

\* RdPara::Prompt(prompt, cmd); of the prompt only its length matters here
Prompt(prompt_len, cmd) == [prompt_len |-> prompt_len, cmd |-> cmd]

\* the Prompt paragraphs of a body that render as a slider: Knob with val < 0
IsSlider(para) == para.cmd.op = "Knob" /\ Num(para.cmd.val) < 0

IsCheckbox(para) == para.cmd.op = "Toggle"

\* RdDoc as RdDoc::parse builds it: toggles and knobs are the switches and the
\* knobs of the body's checkboxes and sliders
RdDoc(id, pre_cmds, body, post_cmds) ==
    [id |-> id, pre_cmds |-> pre_cmds, body |-> body, post_cmds |-> post_cmds,
     toggles |-> { body[i].cmd.sw : i \in { j \in DOMAIN body : IsCheckbox(body[j]) } },
     knobs |-> { body[i].cmd.knob : i \in { j \in DOMAIN body : IsSlider(body[j]) } }]

\* CUR_DOC before the first show_doc: RdDoc { id: "", ..Default::default() }
EmptyDoc == RdDoc("", <<>>, <<>>, <<>>)

\* the widget name of a switch: format!("{:?}", sw) with the id of a sideload
\* or sysload replaced by "ID"
SwitchName(sw) ==
    IF sw[1] \in {"Sideload", "Sysload"} THEN <<sw[1], sw[2], "ID">> ELSE sw

DigitName(knob) == <<knob, "-digit", "">>
SliderName(knob) == <<knob, "-slider", "">>

\* rd_util::format_size: the size in bytes, rounded
format_size(n, d) == [unit |-> "B", n |-> RoundDiv(n, d)]

\* rd_util::format4_pct: the percentage, to a tenth of a percent
format4_pct(ratio) == [unit |-> "%", n |-> RoundDiv(1000 * Num(ratio), Den(ratio))]

\* format_knob_val(knob, ratio), for a ratio within [0, 1]
format_knob_val(knob, ratio, wbps) ==
    CASE knob \in {"HashdALatTarget", "HashdBLatTarget"} ->
           [unit |-> "m", n |-> RoundDiv(1000 * Num(ratio), Den(ratio))]
      [] knob \in {"HashdAMem", "HashdBMem"} ->
           format_size(Num(ratio) * MEM_SIZE, Den(ratio))
      [] knob \in {"HashdALogBps", "HashdBLogBps"} ->
           format_size(Num(ratio) * wbps, Den(ratio))
      [] knob \in {"MemMargin", "Balloon"} ->
           format_size(Num(ratio) * TOTAL_MEMORY, Den(ratio))
      [] OTHER -> format4_pct(ratio)

Max(a, b) == IF a > b THEN a ELSE b

\* (width as i32 - prompt.len() as i32 - 13).max(5) as usize
SliderRange(prompt_len) == Max(WIDTH - prompt_len - 13, 5)

\* render_doc / render_cmd: the named widgets of a document, as they are
\* created: checkboxes unchecked, sliders at 0, readouts showing ratio 0
render_doc(doc, wbps) ==
    LET body == doc.body
        boxes == { j \in DOMAIN body : IsCheckbox(body[j]) }
        sliders == { j \in DOMAIN body : IsSlider(body[j]) }
        names == { SwitchName(body[j].cmd.sw) : j \in boxes }
                 \cup { DigitName(body[j].cmd.knob) : j \in sliders }
                 \cup { SliderName(body[j].cmd.knob) : j \in sliders }
        ParaOf(knob) == body[CHOOSE j \in sliders : body[j].cmd.knob = knob]
    IN [w \in names |->
          IF w[2] = "-digit" THEN format_knob_val(w[1], ZERO, wbps)
          ELSE IF w[2] = "-slider"
               THEN [max_value |-> SliderRange(ParaOf(w[1]).prompt_len), value |-> 0]
               ELSE FALSE]

-----------------------------------------------------------------------------
(* Reconciliation: refresh_toggles, refresh_knobs, refresh_cur_doc *)

\* let val = match sw { ... } of refresh_toggles
ToggleVal(cs, sw) ==
    CASE sw[1] = "BenchHashd" -> cs.bench_hashd_next > cs.bench_hashd_cur
      [] sw[1] = "BenchHashdLoop" -> cs.bench_hashd_next = U64_MAX
      [] sw[1] = "BenchIoCost" -> cs.bench_iocost_next > cs.bench_iocost_cur
      [] sw[1] = "BenchNeeded" -> cs.bench_hashd_cur = 0 \/ cs.bench_iocost_cur = 0
      [] sw[1] = "HashdA" -> cs.hashd[0].active
      [] sw[1] = "HashdB" -> cs.hashd[1].active
      [] sw[1] = "Sideload" -> sw[2] \in DOMAIN cs.sideloads
      [] sw[1] = "Sysload" -> sw[2] \in DOMAIN cs.sysloads
      [] sw[1] = "CpuResCtl" -> cs.cpu
      [] sw[1] = "MemResCtl" -> cs.mem
      [] sw[1] = "IoResCtl" -> cs.io
      [] sw[1] = "Oomd" -> cs.oomd
      [] sw[1] = "OomdWorkMemPressure" -> cs.oomd_work_mempress
      [] sw[1] = "OomdWorkSenpai" -> cs.oomd_work_senpai
      [] sw[1] = "OomdSysMemPressure" -> cs.oomd_sys_mempress
      [] sw[1] = "OomdSysSenpai" -> cs.oomd_sys_senpai

\* refresh_toggles: c.set_checked(val) on every checkbox named after a toggle
\* of the document (the value of a toggle depends on its kind and tag only, as
\* its widget name does)
refresh_toggles(view, doc, cs) ==
    LET names == { SwitchName(sw) : sw \in doc.toggles }
    IN [w \in DOMAIN view |-> IF w \in names THEN ToggleVal(cs, w) ELSE view[w]]

\* a slip: val.max(0.0) without the min(1.0)
Clamp01_NoUpper(v) ==
    IF Den(v) = 0 THEN (IF Num(v) > 0 THEN ONE ELSE ZERO)
    ELSE IF Num(v) < 0 THEN ZERO
    ELSE v

\* val.max(0.0).min(1.0); a zero denominator is the f64 NaN (0/0, which max()
\* turns into 0.0) or +infinity
Clamp01(v) ==
    IF Den(v) = 0 THEN (IF Num(v) > 0 THEN ONE ELSE ZERO)
    ELSE IF Num(v) < 0 THEN ZERO
    ELSE IF Num(v) > Den(v) THEN ONE
    ELSE v

hmem_ratio(knob) == IF knob = None THEN MEM_FRAC ELSE knob

\* v.min(1.0)
MinOne(v) == IF Num(v) > Den(v) THEN ONE ELSE v

hashd_cmd_file_addr_stdev(hashd) ==
    IF hashd.file_addr_stdev # None THEN MinOne(hashd.file_addr_stdev)
    ELSE DFL_FILE_ADDR_STDEV

hashd_cmd_anon_addr_stdev(hashd) ==
    IF hashd.anon_addr_stdev # None THEN MinOne(hashd.anon_addr_stdev)
    ELSE DFL_ANON_ADDR_STDEV

\* let val = match knob { ... } of refresh_knobs
KnobVal(cs, knob, wbps) ==
    CASE knob = "HashdALoad" -> cs.hashd[0].rps_target_ratio
      [] knob = "HashdBLoad" -> cs.hashd[1].rps_target_ratio
      [] knob = "HashdALatTargetPct" -> cs.hashd[0].lat_target_pct
      [] knob = "HashdBLatTargetPct" -> cs.hashd[1].lat_target_pct
      [] knob = "HashdALatTarget" -> cs.hashd[0].lat_target
      [] knob = "HashdBLatTarget" -> cs.hashd[1].lat_target
      [] knob = "HashdAMem" -> hmem_ratio(cs.hashd[0].mem_ratio)
      [] knob = "HashdBMem" -> hmem_ratio(cs.hashd[1].mem_ratio)
      [] knob = "HashdAFileAddrStdev" -> hashd_cmd_file_addr_stdev(cs.hashd[0])
      [] knob = "HashdAAnonAddrStdev" -> hashd_cmd_anon_addr_stdev(cs.hashd[0])
      [] knob = "HashdBFileAddrStdev" -> hashd_cmd_file_addr_stdev(cs.hashd[1])
      [] knob = "HashdBAnonAddrStdev" -> hashd_cmd_anon_addr_stdev(cs.hashd[1])
      [] knob = "HashdAFile" -> cs.hashd[0].file_ratio
      [] knob = "HashdBFile" -> cs.hashd[1].file_ratio
      [] knob = "HashdAFileMax" -> cs.hashd[0].file_max_ratio
      [] knob = "HashdBFileMax" -> cs.hashd[1].file_max_ratio
      [] knob = "HashdALogBps" -> Rat(cs.hashd[0].log_bps, wbps)
      [] knob = "HashdBLogBps" -> Rat(cs.hashd[1].log_bps, wbps)
      [] knob = "HashdAWeight" -> cs.hashd[0].weight
      [] knob = "HashdBWeight" -> cs.hashd[1].weight
      [] knob = "SysCpuRatio" -> cs.sys_cpu_ratio
      [] knob = "SysIoRatio" -> cs.sys_io_ratio
      [] knob = "MemMargin" -> cs.mem_margin
      [] knob = "Balloon" -> cs.balloon_ratio
      [] knob = "CpuHeadroom" -> cs.cpu_headroom

\* (val * (range - 1) as f64).round() as usize
SliderSlot(val, range) == RoundDiv(Num(val) * (range - 1), Den(val))

\* a slip: the slider moved by the slot instead of to it
refresh_one_knob_Relative(old, w, knob, val0, wbps) ==
    LET val == Clamp01(val0)
    IN IF w = DigitName(knob) THEN format_knob_val(knob, val, wbps)
       ELSE IF w = SliderName(knob)
            THEN [old EXCEPT !.value =
                     (@ + SliderSlot(val, old.max_value)) % old.max_value]
            ELSE old

\* refresh_one_knob(siv, knob, val0), as it acts on the widget named w that
\* holds old: the readout and the slider named after the knob are set
refresh_one_knob(old, w, knob, val0, wbps) ==
    LET val == Clamp01(val0)
    IN IF w = DigitName(knob) THEN format_knob_val(knob, val, wbps)
       ELSE IF w = SliderName(knob)
            THEN [old EXCEPT !.value = SliderSlot(val, old.max_value)]
            ELSE old

\* refresh_knobs: refresh_one_knob for every knob of the document; each call
\* touches the two widgets named after its knob and no other
refresh_knobs(view, doc, cs, wbps) ==
    [w \in DOMAIN view |->
        IF w[2] \in {"-digit", "-slider"} /\ w[1] \in doc.knobs
        THEN refresh_one_knob(view[w], w, w[1], KnobVal(cs, w[1], wbps), wbps)
        ELSE view[w]]

-----------------------------------------------------------------------------
(* The machine and the log of what a handler did *)

\* RdDoc::parse(DOCS.get(id).unwrap().as_bytes()).unwrap(): the document of an
\* id of the registry.  "" is the id of the empty document CUR_DOC starts as.
DocOf(id) == IF id = "" THEN EmptyDoc ELSE docs[id]

\* The machine: CMD_STATE (cs), the main graph of the view (graph), CUR_DOC
\* (held as its id: the document is DocOf(cur_id)), DOC_HIST, the named widgets
\* (view), the agent's wbps, whether the program still runs (status), and the
\* steps the running handler took (log)
Machine(cs, cur_id, doc_hist, wbps) ==
    [cs |-> cs, graph |-> "", cur_id |-> cur_id, doc_hist |-> doc_hist,
     view |-> render_doc(DocOf(cur_id), wbps), wbps |-> wbps, status |-> "ok",
     log |-> <<>>]

CurDoc(m) == DocOf(m.cur_id)

Logged(m, evs) == [m EXCEPT !.log = @ \o evs]

EvExec(cmd) == [ev |-> "exec", cmd |-> cmd]
EvLock == [ev |-> "lock"]
EvUnlock == [ev |-> "unlock"]
EvSync(ok, cs) == [ev |-> "sync", ok |-> ok, cs |-> cs]
EvMutate(cs) == [ev |-> "mutate", cs |-> cs]
EvApply(ok, cs) == [ev |-> "apply", ok |-> ok, cs |-> cs]
EvRefresh(cs) == [ev |-> "refresh", cs |-> cs]
EvReconcile(id) == [ev |-> "reconcile", doc |-> id]
EvRead == [ev |-> "read"]
EvUnread == [ev |-> "unread"]
EvWrite == [ev |-> "write"]
EvUnwrite == [ev |-> "unwrite"]
EvPush(id) == [ev |-> "push", doc |-> id]
EvInstall(id) == [ev |-> "install", doc |-> id]
EvPanic == [ev |-> "panic"]

Panicked(m) == [Logged(m, <<EvPanic>>) EXCEPT !.status = "panic"]

\* CmdState::refresh(): the agent's benchmark sequence numbers are read back;
\* a pending benchmark may have completed since the last look
CmdStateRefresh(cs) ==
    LET hashd == {cs.bench_hashd_cur} \cup
                 (IF cs.bench_hashd_next > cs.bench_hashd_cur /\ cs.bench_hashd_cur < MaxSeq
                  THEN {cs.bench_hashd_cur + 1} ELSE {})
        iocost == {cs.bench_iocost_cur} \cup
                  (IF cs.bench_iocost_next > cs.bench_iocost_cur /\ cs.bench_iocost_cur < MaxSeq
                   THEN {cs.bench_iocost_cur + 1} ELSE {})
    IN { [cs EXCEPT !.bench_hashd_cur = h, !.bench_iocost_cur = i] :
            h \in hashd, i \in iocost }

\* refresh_cur_doc
refresh_cur_doc(m) ==
    { Logged([m EXCEPT !.cs = cs,
                       !.view = refresh_knobs(refresh_toggles(m.view, CurDoc(m), cs),
                                              CurDoc(m), cs, m.wbps)],
             <<EvLock, EvRead, EvRefresh(cs), EvReconcile(m.cur_id),
               EvUnread, EvUnlock>>) :
        cs \in CmdStateRefresh(m.cs) }


\* a slip: the sync() moved out of the if is_on
SyncStep_Always(m, cmd) ==
    IF cmd.op \in {"On", "Off"} THEN { Logged(m, <<EvSync(ok, m.cs)>>) : ok \in BOOLEAN }
    ELSE {m}

\* if is_on { cs.sync() }: the agent may fail the sync, which is only logged
SyncStep(m, cmd) ==
    IF cmd.op = "On" THEN { Logged(m, <<EvSync(ok, m.cs)>>) : ok \in BOOLEAN }
    ELSE {m}

\* a slip: cs.apply() without the drop(cs) before refresh_cur_doc
ApplyStep_KeepsLock(m) ==
    { Logged(m, <<EvApply(ok, m.cs)>>) : ok \in BOOLEAN }

\* cs.apply(): the agent may fail it, which is only logged; drop(cs)
ApplyStep(m) ==
    { Logged(m, <<EvApply(ok, m.cs), EvUnlock>>) : ok \in BOOLEAN }

\* the match of exec_one_cmd on one machine, with what it leaves in the log
MutateStep(m, cmd) ==
    LET m2 == MatchCmd(m, cmd)
    IN IF m2.status = "ok" THEN Logged(m2, <<EvMutate(m2.cs)>>) ELSE Panicked(m)


\* a slip: exec_one_cmd without its closing refresh_cur_doc
exec_one_cmd_NoRefresh(m, cmd) ==
    IF m.status # "ok" THEN {m}
    ELSE LET locked == Logged(m, <<EvExec(cmd), EvLock>>)
             mutated == { MutateStep(x, cmd) : x \in SyncStep(locked, cmd) }
         IN IF cmd.op \notin {"On", "Off", "Knob", "Graph", "Reset"}
            THEN {Panicked(locked)}
            ELSE UNION { IF x.status # "ok" THEN {x} ELSE ApplyStep(x) : x \in mutated }

\* a slip: cs.apply()? -- a failed apply returns before the reconciliation
exec_one_cmd_ApplyErrReturns(m, cmd) ==
    IF m.status # "ok" THEN {m}
    ELSE LET locked == Logged(m, <<EvExec(cmd), EvLock>>)
             mutated == { MutateStep(x, cmd) : x \in SyncStep(locked, cmd) }
         IN IF cmd.op \notin {"On", "Off", "Knob", "Graph", "Reset"}
            THEN {Panicked(locked)}
            ELSE UNION { IF x.status # "ok" THEN {x}
                         ELSE UNION { IF y.log[Len(y.log) - 1].ok
                                      THEN refresh_cur_doc(y) ELSE {y} :
                                      y \in ApplyStep(x) } :
                         x \in mutated }

\* exec_one_cmd
exec_one_cmd(m, cmd) ==
    IF m.status # "ok" THEN {m}
    ELSE LET locked == Logged(m, <<EvExec(cmd), EvLock>>)
             mutated == { MutateStep(x, cmd) : x \in SyncStep(locked, cmd) }
         IN IF cmd.op \notin {"On", "Off", "Knob", "Graph", "Reset"}
            THEN {Panicked(locked)}
            ELSE UNION { IF x.status # "ok" THEN {x}
                         ELSE UNION { refresh_cur_doc(y) : y \in ApplyStep(x) } :
                         x \in mutated }

\* for cmd in group { exec_one_cmd(siv, cmd) } from each machine of a set
RECURSIVE ExecEach(_, _)
ExecEach(ms, cmds) ==
    IF cmds = <<>> THEN ms
    ELSE ExecEach(UNION { exec_one_cmd(x, Head(cmds)) : x \in ms }, Tail(cmds))

\* a slip: a Group whose member panics leaves Control State as it found it
exec_cmd_RollsBack(m, cmd) ==
    IF cmd.op = "Group"
    THEN { IF x.status = "panic" THEN [x EXCEPT !.cs = m.cs] ELSE x :
              x \in ExecEach({m}, cmd.group) }
    ELSE exec_one_cmd(m, cmd)

\* exec_cmd
exec_cmd(m, cmd) ==
    IF cmd.op = "Group" THEN ExecEach({m}, cmd.group) ELSE exec_one_cmd(m, cmd)

\* for cmd in cmds { exec_cmd(siv, cmd) } from each machine of a set
RECURSIVE ExecAll(_, _)
ExecAll(ms, cmds) ==
    IF cmds = <<>> THEN ms
    ELSE ExecAll(UNION { exec_cmd(x, Head(cmds)) : x \in ms }, Tail(cmds))

\* a slip: the arms of match val exchanged
exec_toggle_Inverted(m, cmd, val) ==
    IF cmd.op = "Toggle"
    THEN exec_cmd(m, IF val THEN Off(cmd.sw) ELSE On(cmd.sw))
    ELSE {Panicked(m)}

\* a slip: a command that is no Toggle is executed as it stands
exec_toggle_Lenient(m, cmd, val) ==
    IF cmd.op = "Toggle"
    THEN exec_cmd(m, IF val THEN On(cmd.sw) ELSE Off(cmd.sw))
    ELSE exec_cmd(m, cmd)

\* exec_toggle
exec_toggle(m, cmd, val) ==
    IF cmd.op = "Toggle"
    THEN exec_cmd(m, IF val THEN On(cmd.sw) ELSE Off(cmd.sw))
    ELSE {Panicked(m)}

\* a slip: the ratio taken over range instead of range - 1
exec_knob_OverRange(m, cmd, val, range) ==
    IF cmd.op = "Knob"
    THEN LET ratio == Rat(val, range)
             shown == [m EXCEPT !.view =
                          [w \in DOMAIN m.view |->
                              IF w = DigitName(cmd.knob)
                              THEN format_knob_val(cmd.knob, ratio, m.wbps)
                              ELSE m.view[w]]]
         IN exec_cmd(shown, Knob(cmd.knob, ratio))
    ELSE {Panicked(m)}

\* exec_knob
exec_knob(m, cmd, val, range) ==
    IF cmd.op = "Knob"
    THEN LET ratio == Rat(val, range - 1)
             shown == [m EXCEPT !.view =
                          [w \in DOMAIN m.view |->
                              IF w = DigitName(cmd.knob)
                              THEN format_knob_val(cmd.knob, ratio, m.wbps)
                              ELSE m.view[w]]]
         IN exec_cmd(shown, Knob(cmd.knob, ratio))
    ELSE {Panicked(m)}

-----------------------------------------------------------------------------
(* Navigation: show_doc, post_layout, Back *)

EvShow(target, jump, back) == [ev |-> "show", target |-> target, jump |-> jump, back |-> back]
EvDiverge == [ev |-> "diverge"]

\* the position of the first Jump among cmds, or 0
FirstJump(cmds) ==
    IF \E i \in DOMAIN cmds : cmds[i].op = "Jump"
    THEN CHOOSE i \in DOMAIN cmds :
            cmds[i].op = "Jump" /\ \A j \in 1..(i - 1) : cmds[j].op # "Jump"
    ELSE 0

\* a slip: the history is pushed on a back transition as well
PushHist_IgnoreBack(m, back) ==
    IF m.status = "ok" /\ m.cur_id # ""
    THEN Logged([m EXCEPT !.doc_hist = Append(@, m.cur_id)], <<EvPush(m.cur_id)>>)
    ELSE m

\* a slip: if !back, without the test of cur_doc.id
PushHist_FromNowhere(m, back) ==
    IF m.status = "ok" /\ ~back
    THEN Logged([m EXCEPT !.doc_hist = Append(@, m.cur_id)], <<EvPush(m.cur_id)>>)
    ELSE m

\* if !back && cur_doc.id.len() > 0 { DOC_HIST.lock().unwrap().push(cur_doc.id.clone()) }
PushHist(m, back) ==
    IF m.status = "ok" /\ ~back /\ m.cur_id # ""
    THEN Logged([m EXCEPT !.doc_hist = Append(@, m.cur_id)], <<EvPush(m.cur_id)>>)
    ELSE m

\* a slip: CUR_DOC.write() without the drop(cur_doc) before it
InstallDoc_KeepsRead(m, target) ==
    IF m.status # "ok" THEN {m}
    ELSE refresh_cur_doc(
            Logged([m EXCEPT !.cur_id = target,
                             !.view = render_doc(DocOf(target), m.wbps)],
                   <<EvWrite, EvInstall(target), EvUnwrite>>))

\* the end of show_doc: the read guard is dropped, CUR_DOC is replaced under
\* the write lock, the dialog is given the rendered document, and
\* refresh_cur_doc runs
InstallDoc(m, target) ==
    IF m.status # "ok" THEN {m}
    ELSE refresh_cur_doc(
            Logged([m EXCEPT !.cur_id = target,
                             !.view = render_doc(DocOf(target), m.wbps)],
                   <<EvUnread, EvWrite, EvInstall(target), EvUnwrite>>))

RECURSIVE show_doc_from(_, _, _, _, _)

\* a slip: a back transition that runs no exit and no entry command
show_doc_from_BackSkipsCmds(m, target, jump, back, seen) ==
    IF m.status # "ok" THEN {m}
    ELSE IF target \notin DOMAIN docs THEN {Panicked(m)}
    ELSE IF target \in seen
         THEN {[Logged(m, <<EvDiverge>>) EXCEPT !.status = "diverged"]}
    ELSE LET doc == DocOf(target)
             entry == Logged(m, <<EvShow(target, jump, back), EvRead>>)
             k == FirstJump(doc.pre_cmds)
             pre == IF k = 0 THEN doc.pre_cmds ELSE SubSeq(doc.pre_cmds, 1, k - 1)
             entered == ExecAll(ExecAll({entry}, CurDoc(m).post_cmds), pre)
         IN IF ~jump THEN InstallDoc(entry, target)
            ELSE IF back THEN InstallDoc(PushHist(entry, back), target)
            ELSE IF k > 0
                 THEN UNION { show_doc_from(Logged(x, <<EvUnread>>),
                                            doc.pre_cmds[k].target, TRUE, FALSE,
                                            seen \cup {target}) : x \in entered }
                 ELSE UNION { InstallDoc(PushHist(x, back), target) : x \in entered }

\* a slip: the target's entry commands run before the exit commands of the
\* document that is left
show_doc_from_PreFirst(m, target, jump, back, seen) ==
    IF m.status # "ok" THEN {m}
    ELSE IF target \notin DOMAIN docs THEN {Panicked(m)}
    ELSE IF target \in seen
         THEN {[Logged(m, <<EvDiverge>>) EXCEPT !.status = "diverged"]}
    ELSE LET doc == DocOf(target)
             entry == Logged(m, <<EvShow(target, jump, back), EvRead>>)
             k == FirstJump(doc.pre_cmds)
             pre == IF k = 0 THEN doc.pre_cmds ELSE SubSeq(doc.pre_cmds, 1, k - 1)
             entered == ExecAll(ExecAll({entry}, pre), CurDoc(m).post_cmds)
         IN IF ~jump THEN InstallDoc(entry, target)
            ELSE IF k > 0
                 THEN UNION { show_doc_from(Logged(x, <<EvUnread>>),
                                            doc.pre_cmds[k].target, TRUE, FALSE,
                                            seen \cup {target}) : x \in entered }
                 ELSE UNION { InstallDoc(PushHist(x, back), target) : x \in entered }

\* show_doc(siv, target, jump, back), entered with the targets `seen` already
\* tried in this transition.  Whether a pre-command Jump is followed depends on
\* the documents alone, so coming back to a target of `seen` means that the
\* recursion never ends.
show_doc_from(m, target, jump, back, seen) ==
    IF m.status # "ok" THEN {m}
    ELSE IF target \notin DOMAIN docs THEN {Panicked(m)}
    ELSE IF target \in seen
         THEN {[Logged(m, <<EvDiverge>>) EXCEPT !.status = "diverged"]}
    ELSE LET doc == DocOf(target)
             entry == Logged(m, <<EvShow(target, jump, back), EvRead>>)
             k == FirstJump(doc.pre_cmds)
             pre == IF k = 0 THEN doc.pre_cmds ELSE SubSeq(doc.pre_cmds, 1, k - 1)
             entered == ExecAll(ExecAll({entry}, CurDoc(m).post_cmds), pre)
         IN IF ~jump THEN InstallDoc(entry, target)
            ELSE IF k > 0
                 THEN UNION { show_doc_from(Logged(x, <<EvUnread>>),
                                            doc.pre_cmds[k].target, TRUE, FALSE,
                                            seen \cup {target}) : x \in entered }
                 ELSE UNION { InstallDoc(PushHist(x, back), target) : x \in entered }

\* show_doc
show_doc(m, target, jump, back) == show_doc_from(m, target, jump, back, {})

\* post_layout
post_layout(m) ==
    IF m.cur_id = "" THEN show_doc(m, "index", TRUE, FALSE)
    ELSE show_doc(m, m.cur_id, FALSE, FALSE)

\* the 'b' key: DOC_HIST is popped and show_doc(id, true, true) is called
back_doc(m) ==
    LET n == Len(m.doc_hist)
    IN show_doc([m EXCEPT !.doc_hist = SubSeq(@, 1, n - 1)], m.doc_hist[n], TRUE, TRUE)

-----------------------------------------------------------------------------
(* SpecCmd: the handlers of one document's widgets, from many Control States *)

Tags == {"t1", "t2"}
Ids == {"i1", "i2"}

\* the switches a document can name
Switches ==
    SimpleSwitches
    \cup { Sideload("t1", i) : i \in Ids } \cup { Sideload("t2", "i1") }
    \cup { Sysload("t1", i) : i \in Ids } \cup { Sysload("t2", "i1") }

RECURSIVE SetToSeq(_)
SetToSeq(S) ==
    IF S = {} THEN <<>>
    ELSE LET x == CHOOSE y \in S : TRUE IN <<x>> \o SetToSeq(S \ {x})

\* the commands behind the buttons of the panel document (Off ignores the id
\* of a sideload or sysload, so one Off per tag)
ButtonCmds ==
    { On(sw) : sw \in Switches }
    \cup { Off(sw) : sw \in { x \in Switches : x[3] \in {"", "i1"} } }
    \cup { Knob(k, Rat(3, 4)) : k \in {"HashdALoad", "HashdBMem", "HashdBLogBps", "Balloon"} }
    \cup { Knob(k, ONE) : k \in {"HashdAFileAddrStdev", "HashdBAnonAddrStdev", "HashdALogBps"} }
    \cup { Reset(r) : r \in RdReset }
    \cup { Graph(t) : t \in GraphTags \cup {""} }
    \cup { Group(<<On(Sw("HashdA")), Knob("HashdALoad", Rat(1, 2))>>),
           Group(<<Reset("Secondaries"), Off(Sw("MemResCtl")),
                   On(Sysload("t1", "i1"))>>) }

\* the checkboxes of the panel document: one per widget name
PanelToggles ==
    SimpleSwitches \cup {Sideload("t1", "i1"), Sideload("t2", "i1"), Sysload("t1", "i2")}

\* a document with a checkbox for every switch, a slider for every knob (the
\* short prompts get wide sliders, the long ones the minimum of 5 slots) and a
\* button for every command of ButtonCmds
PanelDoc ==
    RdDoc("panel", <<>>,
          SetToSeq({ Prompt(3, Toggle(sw)) : sw \in PanelToggles })
          \o SetToSeq({ Prompt(IF k \in {"HashdALoad", "HashdALogBps", "MemMargin"}
                                THEN 4 ELSE 9, Knob(k, Rat(-1, 1))) : k \in RdKnob })
          \o SetToSeq({ Prompt(5, c) : c \in ButtonCmds }),
          <<>>)

\* the benchmark counters a scenario starts from: nothing requested, hashd
\* requested, both done once, hashd looping
BenchCfgs ==
    { [hc |-> 0, hn |-> 0, ic |-> 0, in |-> 0],
      [hc |-> 0, hn |-> 1, ic |-> 0, in |-> 0],
      [hc |-> 1, hn |-> 1, ic |-> 1, in |-> 1],
      [hc |-> 1, hn |-> U64_MAX, ic |-> 1, in |-> 2] }

\* workload parameters away from their defaults
TWEAKED_HASHD ==
    [rps_target_ratio |-> Rat(1, 4), lat_target_pct |-> Rat(9, 10),
     lat_target |-> Rat(1, 20), mem_ratio |-> Rat(3, 4),
     file_addr_stdev |-> Rat(100, 1), anon_addr_stdev |-> Rat(1, 8),
     file_ratio |-> Rat(1, 2), file_max_ratio |-> Rat(3, 4), log_bps |-> 6,
     weight |-> Rat(1, 2)]

\* a Control State the program can be in: every flag b, the counters k, and
\* either the defaults or tweaked parameters with other loads running
StartCs(b, k, q) ==
    [bench_hashd_cur |-> k.hc, bench_hashd_next |-> k.hn,
     bench_iocost_cur |-> k.ic, bench_iocost_next |-> k.in,
     hashd |-> [i \in 0..1 |-> HashdCmd(b, IF q THEN TWEAKED_HASHD ELSE DFL_HASHD)],
     sideloads |-> IF q THEN MapInsert(EmptyMap, "t2", "i2") ELSE EmptyMap,
     sysloads |-> IF q THEN MapInsert(EmptyMap, "t2", "i2") ELSE EmptyMap,
     cpu |-> b, mem |-> b, io |-> b,
     oomd |-> b, oomd_work_mempress |-> b, oomd_work_senpai |-> b,
     oomd_sys_mempress |-> b, oomd_sys_senpai |-> b,
     sys_cpu_ratio |-> IF q THEN Rat(1, 2) ELSE DFL_RESCTL_PARAMS.sys_cpu_ratio,
     sys_io_ratio |-> IF q THEN Rat(1, 2) ELSE DFL_RESCTL_PARAMS.sys_io_ratio,
     mem_margin |-> IF q THEN Rat(1, 2) ELSE DFL_RESCTL_PARAMS.mem_margin,
     balloon_ratio |-> IF q THEN Rat(1, 2) ELSE DFL_RESCTL_PARAMS.balloon_ratio,
     cpu_headroom |-> IF q THEN Rat(1, 2) ELSE DFL_RESCTL_PARAMS.cpu_headroom]

StartStates == { StartCs(b, k, q) : b \in BOOLEAN, k \in BenchCfgs, q \in BOOLEAN }

\* what a handler was given
InPress(cmd) == [h |-> "press", cmd |-> cmd]
InCheck(cmd, val) == [h |-> "check", cmd |-> cmd, val |-> val]
InSlide(cmd, val) == [h |-> "slide", cmd |-> cmd, val |-> val]

\* a scenario runs one handler, and after the button of a switch command a
\* second such button on the same switch or the same sideload/sysload tag
MayRun(in) ==
    \/ trail = <<>>
    \/ /\ Len(trail) = 1
       /\ trail[1].h = "press" /\ trail[1].cmd.op \in {"On", "Off"}
       /\ in.h = "press" /\ in.cmd.op \in {"On", "Off"}
       /\ SwitchName(in.cmd.sw) = SwitchName(trail[1].cmd.sw)

Fresh(m) == [m EXCEPT !.log = <<>>]

\* the second machine where no comparison is run
NoMachine == [status |-> "none"]

InitCmd ==
    /\ docs = [id \in {"panel"} |-> PanelDoc]
    /\ sources = <<>>
    /\ \E cs \in StartStates :
          \E m \in refresh_cur_doc(Machine(cs, "panel", <<>>, WBPS)) : st = Fresh(m)
    /\ ref = NoMachine
    /\ start = st.cs
    /\ trail = <<>>

\* a button of the current document is pressed: exec_cmd
Press ==
    /\ st.status = "ok"
    /\ Len(trail) < 2
    /\ \E i \in DOMAIN CurDoc(st).body :
          LET cmd == CurDoc(st).body[i].cmd
          IN /\ cmd.op \in {"On", "Off", "Graph", "Reset", "Group"}
                \/ (cmd.op = "Knob" /\ Num(cmd.val) >= 0)
             /\ MayRun(InPress(cmd))
             /\ st' \in exec_cmd(Fresh(st), cmd)
             /\ trail' = Append(trail, InPress(cmd))
    /\ UNCHANGED <<docs, sources, ref, start>>

\* a checkbox of the current document is changed to val: the widget takes the
\* value, then exec_toggle runs
Check ==
    /\ st.status = "ok"
    /\ Len(trail) < 2
    /\ \E i \in DOMAIN CurDoc(st).body, val \in BOOLEAN :
          LET cmd == CurDoc(st).body[i].cmd
          IN /\ cmd.op = "Toggle"
             /\ MayRun(InCheck(cmd, val))
             /\ st' \in exec_toggle(
                    [Fresh(st) EXCEPT !.view[SwitchName(cmd.sw)] = val], cmd, val)
             /\ trail' = Append(trail, InCheck(cmd, val))
    /\ UNCHANGED <<docs, sources, ref, start>>

\* a slider of the current document is moved to slot val: the widget takes
\* the value, then exec_knob runs with the range the slider was built with
Slide ==
    /\ st.status = "ok"
    /\ Len(trail) < 2
    /\ \E i \in DOMAIN CurDoc(st).body :
          LET cmd == CurDoc(st).body[i].cmd
              range == SliderRange(CurDoc(st).body[i].prompt_len)
          IN /\ IsSlider(CurDoc(st).body[i])
             /\ MayRun(InSlide(cmd, 0))
             /\ \E val \in {0, 1, range - 1} :
                   /\ st' \in exec_knob(
                          [Fresh(st) EXCEPT !.view[SliderName(cmd.knob)].value = val],
                          cmd, val, range)
                   /\ trail' = Append(trail, InSlide(cmd, val))
    /\ UNCHANGED <<docs, sources, ref, start>>

NextCmd == Press \/ Check \/ Slide

SpecCmd == InitCmd /\ [][NextCmd]_vars

-----------------------------------------------------------------------------
(* Reading a handler's log *)

\* the positions where exec_one_cmd was entered
ExecAt(log) == { i \in DOMAIN log : log[i].ev = "exec" }

\* the positions of the steps exec_one_cmd took after entering at i
Seg(log, i) == { j \in (i + 1)..Len(log) : \A k \in (i + 1)..j : log[k].ev # "exec" }

\* the positions within seg of the steps of one kind
EvIn(log, seg, name) == { j \in seg : log[j].ev = name }

\* two Control States that differ at most in the counters the agent reports
SameDesired(a, b) ==
    [a EXCEPT !.bench_hashd_cur = 0, !.bench_iocost_cur = 0]
    = [b EXCEPT !.bench_hashd_cur = 0, !.bench_iocost_cur = 0]

\* the scenario ran exactly these handlers, and the program still runs
Ran(ins) == trail = ins /\ st.status = "ok"

\* the last refresh of the handler found a benchmark counter advanced
AgentAdvanced(m) ==
    \E i \in DOMAIN m.log :
        /\ m.log[i].ev = "apply"
        /\ \/ m.log[i].cs.bench_hashd_cur # m.cs.bench_hashd_cur
           \/ m.log[i].cs.bench_iocost_cur # m.cs.bench_iocost_cur

-----------------------------------------------------------------------------
(* C2 *)

\* two buttons in a row on the same switch, the second the opposite command
OppositePair ==
    /\ Len(trail) = 2 /\ st.status = "ok"
    /\ trail[1].cmd.sw = trail[2].cmd.sw
    /\ trail[1].cmd.op # trail[2].cmd.op

\* C2 as claimed: for every Switch s and every starting Control State,
\* Enable(s) then Disable(s) leaves s off and Disable(s) then Enable(s) leaves
\* s on, on/off being the boolean reconciliation computes for s.
C2_LastCommandWinsEverySwitch ==
    OppositePair => ToggleVal(st.cs, trail[2].cmd.sw) = (trail[2].cmd.op = "On")

\* C2 as amended: the same for every Switch other than BenchNeeded, and for
\* BenchHashd and BenchIoCost after a last Enable only while the agent has not
\* reported the requested run complete when the Enable's reconciliation reads
\* the counters.
C2_LastCommandWins ==
    (/\ OppositePair
     /\ trail[2].cmd.sw[1] # "BenchNeeded"
     /\ ~(/\ trail[2].cmd.op = "On"
          /\ trail[2].cmd.sw[1] \in {"BenchHashd", "BenchIoCost"}
          /\ AgentAdvanced(st)))
    => ToggleVal(st.cs, trail[2].cmd.sw) = (trail[2].cmd.op = "On")

\* Disable then Enable of the hashd benchmark has run and the switch reads on
C2_Witness ==
    /\ Ran(<<InPress(Off(Sw("BenchHashd"))), InPress(On(Sw("BenchHashd")))>>)
    /\ start.bench_hashd_next > start.bench_hashd_cur
    /\ ToggleVal(st.cs, Sw("BenchHashd"))

-----------------------------------------------------------------------------
(* C3 *)

\* C3: every Enable calls sync() once, before the Control State is mutated and
\* before apply(); the state sync() sees is the one the command started from;
\* a Disable never calls sync(); a failed sync() changes nothing of this: the
\* Enable still mutates (to what the switch write gives) and still applies.
C3_SyncBeforeEnable ==
    \A i \in ExecAt(st.log) :
        LET cmd == st.log[i].cmd
            seg == Seg(st.log, i)
            syncs == EvIn(st.log, seg, "sync")
            muts == EvIn(st.log, seg, "mutate")
            applies == EvIn(st.log, seg, "apply")
        IN /\ cmd.op = "Off" => syncs = {}
           /\ cmd.op = "On" =>
                /\ Cardinality(syncs) = 1 /\ Cardinality(muts) = 1
                /\ Cardinality(applies) = 1
                /\ \A s \in syncs, m \in muts, a \in applies :
                      /\ s < m /\ m < a
                      /\ st.log[m].cs = SwitchWrite(st.log[s].cs, cmd.sw, TRUE)
                      /\ st.log[a].cs = st.log[m].cs
                      /\ (Len(trail) = 1 /\ i = 1) => st.log[s].cs = start

\* an Enable whose sync() failed has mutated the state and applied it
C3_Witness ==
    /\ Ran(<<InPress(On(Sw("CpuResCtl")))>>)
    /\ ~start.cpu /\ st.cs.cpu
    /\ \E i, j \in DOMAIN st.log :
          /\ i < j
          /\ st.log[i].ev = "sync" /\ ~st.log[i].ok
          /\ st.log[j].ev = "apply" /\ st.log[j].cs.cpu

-----------------------------------------------------------------------------
(* C4 *)

\* the mapping a switch kind is tracked in
LoadMap(cs, kind) == IF kind = "Sideload" THEN cs.sideloads ELSE cs.sysloads

\* C4: Enable(Sideload(t, id1)) then Enable(Sideload(t, id2)) leaves exactly
\* one mapping for t, t -> id2, and every other tag as it was; Disable of a tag
\* that is not in the mapping leaves the mapping unchanged and the program
\* running.  The same for Sysload.
C4_LoadIdempotent ==
    /\ (/\ Len(trail) = 2 /\ trail[1].cmd.op = "On" /\ trail[2].cmd.op = "On"
        /\ trail[1].cmd.sw[1] \in {"Sideload", "Sysload"})
       => LET kind == trail[2].cmd.sw[1]
              t == trail[2].cmd.sw[2]
              new == LoadMap(st.cs, kind)
              old == LoadMap(start, kind)
          IN /\ st.status = "ok"
             /\ t \in DOMAIN new /\ new[t] = trail[2].cmd.sw[3]
             /\ DOMAIN new \ {t} = DOMAIN old \ {t}
             /\ \A u \in DOMAIN new \ {t} : new[u] = old[u]
             /\ kind = "Sideload" => st.cs.sysloads = start.sysloads
             /\ kind = "Sysload" => st.cs.sideloads = start.sideloads
    /\ (/\ Len(trail) = 1
        /\ trail[1].h \in {"press", "check"}
        /\ trail[1].cmd.op \in {"Off", "Toggle"}
        /\ trail[1].h = "check" => ~trail[1].val
        /\ trail[1].cmd.sw[1] \in {"Sideload", "Sysload"}
        /\ trail[1].cmd.sw[2] \notin DOMAIN LoadMap(start, trail[1].cmd.sw[1]))
       => /\ st.status = "ok"
          /\ st.cs.sideloads = start.sideloads
          /\ st.cs.sysloads = start.sysloads

\* t1 was enabled with id i1 and then with id i2 while t2 was running
C4_Witness ==
    /\ Ran(<<InPress(On(Sideload("t1", "i1"))), InPress(On(Sideload("t1", "i2")))>>)
    /\ "t2" \in DOMAIN start.sideloads
    /\ DOMAIN st.cs.sideloads = {"t1", "t2"}
    /\ st.cs.sideloads["t1"] = "i2"

-----------------------------------------------------------------------------
(* C6 *)

\* every checkbox and every slider with its readout, as rendered for the
\* current document, shows what the Control State gives at this moment
ViewMatches(m) ==
    \A i \in DOMAIN CurDoc(m).body :
        LET para == CurDoc(m).body[i]
        IN /\ IsCheckbox(para) =>
                m.view[SwitchName(para.cmd.sw)] = ToggleVal(m.cs, para.cmd.sw)
           /\ IsSlider(para) =>
                LET knob == para.cmd.knob
                    ratio == Clamp01(KnobVal(m.cs, knob, m.wbps))
                IN /\ m.view[DigitName(knob)] = format_knob_val(knob, ratio, m.wbps)
                   /\ m.view[SliderName(knob)] =
                         [max_value |-> SliderRange(para.prompt_len),
                          value |-> SliderSlot(ratio, SliderRange(para.prompt_len))]

\* C6: when a handler that executed commands has completed, no toggle or knob
\* widget of the current document is out of date.
C6_WidgetsUpToDate ==
    (trail # <<>> /\ st.status = "ok") => ViewMatches(st)

\* a button set the load knob to 3/4 and its 7-slot slider moved to slot 5,
\* its readout to 75%
C6_Witness ==
    /\ Ran(<<InPress(Knob("HashdALoad", Rat(3, 4)))>>)
    /\ start.hashd[0].rps_target_ratio # Rat(3, 4)
    /\ st.view[SliderName("HashdALoad")] = [max_value |-> 7, value |-> 5]
    /\ st.view[DigitName("HashdALoad")] = [unit |-> "%", n |-> 750]

-----------------------------------------------------------------------------
(* C7 *)

\* C7: every execution of an Enable, Disable, Knob, GraphSelect or Reset ends
\* with exactly one apply() and then exactly one reconciliation pass; when
\* apply() fails the mutated state is what was submitted and what the
\* reconciliation then reads (no rollback), and the program goes on.
C7_ApplyThenReconcile ==
    \A i \in ExecAt(st.log) :
        LET seg == Seg(st.log, i)
            muts == EvIn(st.log, seg, "mutate")
            applies == EvIn(st.log, seg, "apply")
            refreshes == EvIn(st.log, seg, "refresh")
            passes == EvIn(st.log, seg, "reconcile")
        IN muts # {} =>
             /\ Cardinality(applies) = 1 /\ Cardinality(passes) = 1
             /\ Cardinality(refreshes) = 1
             /\ \A m \in muts, a \in applies, r \in refreshes, p \in passes :
                   /\ m < a /\ a < r /\ r < p
                   /\ \A j \in seg : j <= p + 2
                   /\ st.log[a].cs = st.log[m].cs
                   /\ SameDesired(st.log[r].cs, st.log[m].cs)
                   /\ ~st.log[a].ok => st.status = "ok"

\* an Enable whose apply() failed: the flag stays set, the program runs
C7_Witness ==
    /\ Ran(<<InPress(On(Sw("MemResCtl")))>>)
    /\ ~start.mem /\ st.cs.mem
    /\ st.view[Sw("MemResCtl")]
    /\ \E i \in DOMAIN st.log : st.log[i].ev = "apply" /\ ~st.log[i].ok

-----------------------------------------------------------------------------
(* SpecReset: a composite reset beside the sequence of its parts *)

\* the composite policies and the resets the policy table builds them from
Decomp ==
    [AllWithParams |-> <<"All", "HashdParams", "ResCtlParams">>,
     Params |-> <<"HashdParams", "ResCtlParams">>,
     AllWorkloads |-> <<"Hashds", "Secondaries">>,
     Protections |-> <<"ResCtl", "Oomd">>]

\* st runs the parts one by one, ref runs the composite; both start from the
\* same Control State and the same graph selection
InitReset ==
    /\ docs = [id \in {"panel"} |-> PanelDoc]
    /\ sources = <<>>
    /\ \E cs \in StartStates, tag \in {"", "RpsLat"} :
          \E m \in refresh_cur_doc(Machine(cs, "panel", <<>>, WBPS)) :
             st = [Fresh(m) EXCEPT !.graph = tag]
    /\ \E policy \in DOMAIN Decomp :
          ref = [policy |-> policy, ran |-> FALSE, m |-> st]
    /\ start = st.cs
    /\ trail = <<>>

\* the button of the composite reset is pressed on ref
ResetComposite ==
    /\ ~ref.ran
    /\ \E m \in exec_cmd(ref.m, Reset(ref.policy)) :
          ref' = [ref EXCEPT !.ran = TRUE, !.m = m]
    /\ UNCHANGED <<st, docs, sources, start, trail>>

\* the button of the next part is pressed on st
ResetPart ==
    /\ Len(trail) < Len(Decomp[ref.policy])
    /\ LET cmd == Reset(Decomp[ref.policy][Len(trail) + 1])
       IN /\ st' \in exec_cmd(Fresh(st), cmd)
          /\ trail' = Append(trail, InPress(cmd))
    /\ UNCHANGED <<ref, docs, sources, start>>

NextReset == ResetComposite \/ ResetPart

SpecReset == InitReset /\ [][NextReset]_vars

\* both runs are complete
ResetsDone == ref.ran /\ Len(trail) = Len(Decomp[ref.policy])

\* C5: from any starting Control State, Reset(AllWithParams) yields the same
\* Control State and the same cleared graph selection as Reset(All), then
\* Reset(HashdParams), then Reset(ResCtlParams): all the desired configuration
\* is equal, and the whole state is once the agent's counters are.
C5_AllWithParamsIsSequence ==
    (ResetsDone /\ ref.policy = "AllWithParams") =>
        /\ st.status = "ok" /\ ref.m.status = "ok"
        /\ st.graph = "" /\ ref.m.graph = ""
        /\ SameDesired(st.cs, ref.m.cs)
        /\ (/\ st.cs.bench_hashd_cur = ref.m.cs.bench_hashd_cur
            /\ st.cs.bench_iocost_cur = ref.m.cs.bench_iocost_cur)
           => (st.cs = ref.m.cs /\ st.view = ref.m.view)

\* both runs done from tweaked parameters, loads running and a graph selected
C5_Witness ==
    /\ ResetsDone /\ ref.policy = "AllWithParams"
    /\ start.sys_cpu_ratio # DFL_RESCTL_PARAMS.sys_cpu_ratio
    /\ start.hashd[0].active /\ start.sideloads # EmptyMap
    /\ start.bench_hashd_next > start.bench_hashd_cur
    /\ st.cs = ref.m.cs
    /\ st.cs.sys_cpu_ratio = DFL_RESCTL_PARAMS.sys_cpu_ratio

-----------------------------------------------------------------------------
(* Spec: free navigation over a registry of documents *)

\* a guide: documents with entry and exit commands, and a page that redirects
GuideDocs ==
    [id \in {"index", "a", "b", "r"} |->
        CASE id = "index" ->
                RdDoc(id, <<Graph("")>>,
                      <<Prompt(4, Jump("a")), Prompt(4, Jump("b")), Prompt(4, Jump("r"))>>,
                      <<>>)
          [] id = "a" ->
                RdDoc(id, <<On(Sw("HashdA"))>>,
                      <<Prompt(4, Jump("b")), Prompt(4, Jump("index")),
                        Prompt(4, Toggle(Sw("HashdA")))>>,
                      <<Off(Sw("HashdA"))>>)
          [] id = "b" ->
                RdDoc(id, <<Group(<<Knob("Balloon", Rat(1, 2)), Graph("RpsLat")>>)>>,
                      <<Prompt(4, Jump("a"))>>,
                      <<Reset("ResCtlParams")>>)
          [] OTHER ->
                RdDoc(id, <<Off(Sw("Oomd")), Jump("b"), On(Sw("Oomd"))>>,
                      <<>>, <<>>)]

\* documents whose entry commands redirect to each other
LoopDocs ==
    [id \in {"index", "a", "c1", "c2"} |->
        CASE id = "index" ->
                RdDoc(id, <<>>, <<Prompt(4, Jump("a")), Prompt(4, Jump("c1"))>>, <<>>)
          [] id = "a" ->
                RdDoc(id, <<>>, <<Prompt(4, Jump("c2")), Prompt(4, Jump("index"))>>,
                      <<On(Sw("MemResCtl"))>>)
          [] id = "c1" -> RdDoc(id, <<Jump("c2")>>, <<>>, <<>>)
          [] OTHER -> RdDoc(id, <<Off(Sw("MemResCtl")), Jump("c1")>>, <<>>, <<>>)]

\* an index that redirects to the first page
RedirectDocs ==
    [id \in {"index", "a", "b"} |->
        CASE id = "index" -> RdDoc(id, <<Graph("HashdA"), Jump("a")>>, <<>>, <<>>)
          [] id = "a" ->
                RdDoc(id, <<>>, <<Prompt(4, Jump("b")), Prompt(4, Jump("index"))>>,
                      <<Graph("")>>)
          [] OTHER ->
                RdDoc(id, <<On(Sw("IoResCtl"))>>,
                      <<Prompt(4, Jump("a")), Prompt(4, Jump("index"))>>, <<>>)]

\* documents with a Jump among the exit commands and a Toggle among the entry
\* commands
BrokenDocs ==
    [id \in {"index", "p", "q"} |->
        CASE id = "index" ->
                RdDoc(id, <<>>, <<Prompt(4, Jump("p")), Prompt(4, Jump("q"))>>, <<>>)
          [] id = "p" ->
                RdDoc(id, <<Off(Sw("Oomd"))>>, <<Prompt(4, Jump("index"))>>,
                      <<Jump("index")>>)
          [] OTHER -> RdDoc(id, <<Toggle(Sw("Oomd"))>>, <<>>, <<>>)]

Corpora == {GuideDocs, LoopDocs, RedirectDocs, BrokenDocs}

InShow(target, back) == [h |-> "show", target |-> target, back |-> back]
InLayout == [h |-> "layout"]

\* the program after construction: default Control State, the empty document
\* current, no history; trail holds what the last handler was given
Init ==
    /\ docs \in Corpora
    /\ sources = <<>>
    /\ st = Machine(DefaultCmdState, "", <<>>, WBPS)
    /\ ref = NoMachine
    /\ start = DefaultCmdState
    /\ trail = <<>>

\* the layout is (re)built: post_layout
PostLayout ==
    /\ st.status = "ok"
    /\ st' \in post_layout(Fresh(st))
    /\ trail' = <<InLayout>>
    /\ UNCHANGED <<docs, sources, ref, start>>

\* the button of a Jump prompt of the current document is pressed
JumpTo ==
    /\ st.status = "ok"
    /\ Len(st.doc_hist) < MaxHist
    /\ \E i \in DOMAIN CurDoc(st).body :
          LET cmd == CurDoc(st).body[i].cmd
          IN /\ cmd.op = "Jump"
             /\ st' \in show_doc(Fresh(st), cmd.target, TRUE, FALSE)
             /\ trail' = <<InShow(cmd.target, FALSE)>>
    /\ UNCHANGED <<docs, sources, ref, start>>

\* the 'b' key with a history to go back to
Back ==
    /\ st.status = "ok"
    /\ st.doc_hist # <<>>
    /\ st' \in back_doc(Fresh(st))
    /\ trail' = <<InShow(st.doc_hist[Len(st.doc_hist)], TRUE)>>
    /\ UNCHANGED <<docs, sources, ref, start>>

Next == PostLayout \/ JumpTo \/ Back

Spec == Init /\ [][Next]_vars

\* the commands a handler ran, in order
CmdsRun(log) ==
    LET IsExec(e) == e.ev = "exec"
        execs == SelectSeq(log, IsExec)
    IN [i \in DOMAIN execs |-> execs[i].cmd]

\* the commands exec_cmd runs for a list: the members in place of a Group
RECURSIVE Flatten(_)
Flatten(cmds) ==
    IF cmds = <<>> THEN <<>>
    ELSE (IF Head(cmds).op = "Group" THEN Head(cmds).group ELSE <<Head(cmds)>>)
         \o Flatten(Tail(cmds))

\* a document that does not redirect: no Jump among its pre_cmds
Plain(id) == FirstJump(docs[id].pre_cmds) = 0

\* the step is a back transition: the handler began as show_doc(_, true, true)
BackStep == st'.log # <<>> /\ st'.log[1].ev = "show" /\ st'.log[1].back

-----------------------------------------------------------------------------
(* SpecTour: show(B, jump); show(C, jump); Back; Back on st, against the
   manual jumps A -> B -> C -> B -> A on ref *)

\* A is the document post_layout first shows; trail lists the documents shown
InitTour ==
    /\ docs \in {GuideDocs, RedirectDocs}
    /\ sources = <<>>
    /\ \E m \in post_layout(Machine(DefaultCmdState, "", <<>>, WBPS)) : st = Fresh(m)
    /\ ref = st
    /\ start = st.cs
    /\ trail = <<InShow(st.cur_id, FALSE)>>

\* show(B, jump), then show(C, jump), on both machines
TourShow ==
    /\ Len(trail) \in 1..2
    /\ st.status = "ok" /\ ref.status = "ok"
    /\ \E t \in DOMAIN docs :
          /\ Plain(t)
          /\ st' \in show_doc(Fresh(st), t, TRUE, FALSE)
          /\ ref' \in show_doc(Fresh(ref), t, TRUE, FALSE)
          /\ trail' = Append(trail, InShow(t, FALSE))
    /\ UNCHANGED <<docs, sources, start>>

\* Back on st; on ref the manual jump to B, then to A
TourBack ==
    /\ Len(trail) \in 3..4
    /\ st.status = "ok" /\ ref.status = "ok"
    /\ st.doc_hist # <<>>
    /\ st' \in back_doc(Fresh(st))
    /\ ref' \in show_doc(Fresh(ref), trail[5 - Len(trail)].target, TRUE, FALSE)
    /\ trail' = Append(trail, InShow(st.doc_hist[Len(st.doc_hist)], TRUE))
    /\ UNCHANGED <<docs, sources, start>>

NextTour == TourShow \/ TourBack

SpecTour == InitTour /\ [][NextTour]_vars

\* C1: from current document A and an empty history, show(B, jump);
\* show(C, jump); Back; Back runs at every step the same commands as the
\* manual jumps A -> B -> C -> B -> A, the Backs lead to B and then to A, and
\* the tour ends with A current and the history empty.
C1_BackRetracesJumps ==
    /\ Len(trail) >= 2 =>
          /\ st.status = "ok" /\ ref.status = "ok"
          /\ CmdsRun(st.log) = CmdsRun(ref.log)
          /\ st.cur_id = ref.cur_id
    /\ Len(trail) = 3 => st.doc_hist = <<trail[1].target, trail[2].target>>
    /\ Len(trail) = 4 => st.doc_hist # <<>>
    /\ Len(trail) = 5 =>
          /\ trail[4].target = trail[2].target
          /\ trail[5].target = trail[1].target
          /\ st.cur_id = trail[1].target
          /\ st.doc_hist = <<>>

\* the tour index -> a -> b -> a -> index is complete, commands ran on the way
\* back, and the two machines differ in what the agent answered
C1_Witness ==
    /\ docs = GuideDocs
    /\ trail = <<InShow("index", FALSE), InShow("a", FALSE), InShow("b", FALSE),
                 InShow("a", TRUE), InShow("index", TRUE)>>
    /\ st.cur_id = "index" /\ st.doc_hist = <<>>
    /\ CmdsRun(st.log) = <<Off(Sw("HashdA")), Graph("")>>
    /\ st.log # ref.log

-----------------------------------------------------------------------------
(* load_docs, and SpecLoad: a corpus is loaded and the first document shown *)

\* a source RdDoc::parse returns Err for
Malformed == [id |-> "", malformed |-> TRUE]

IsMalformed(src) == "malformed" \in DOMAIN src

\* the commands of the Prompt paragraphs of a body, in order
BodyCmds(body) == [i \in DOMAIN body |-> body[i].cmd]

\* a slip: the chain stops before the post_cmds
RegisteredCmds_NoPost(doc) == Flatten(doc.pre_cmds \o BodyCmds(doc.body))

\* the commands register_one_cmd is called on: pre_cmds, then the commands of
\* the prompts, then post_cmds, with the members in place of a Group
RegisteredCmds(doc) == Flatten(doc.pre_cmds \o BodyCmds(doc.body) \o doc.post_cmds)

\* docs.insert(doc.id.clone(), src) for each source in turn
RECURSIVE Registry(_)
Registry(srcs) ==
    IF srcs = <<>> THEN [id \in {} |-> EmptyDoc]
    ELSE LET n == Len(srcs)
             prev == Registry(SubSeq(srcs, 1, n - 1))
         IN [id \in DOMAIN prev \cup {srcs[n].id} |->
                IF id = srcs[n].id THEN srcs[n] ELSE prev[id]]

\* load_docs over index::SOURCES = srcs: the registry and the names
\* collected, or the panic of a parse error or of assert!(nr_missing == 0)
load_docs(srcs) ==
    IF \E i \in DOMAIN srcs : IsMalformed(srcs[i])
    THEN [status |-> "panic"]
    ELSE LET cmds == UNION { { RegisteredCmds(srcs[i])[j] :
                                  j \in DOMAIN RegisteredCmds(srcs[i]) } :
                             i \in DOMAIN srcs }
             switched == { c.sw : c \in { d \in cmds : d.op \in {"On", "Toggle"} } }
             graphs == { c.tag : c \in { d \in cmds : d.op = "Graph" /\ d.tag # "" } }
             targets == { c.target : c \in { d \in cmds : d.op = "Jump" } }
             registry == Registry(srcs)
             nr_missing == Cardinality(graphs \ GraphTags)
                           + Cardinality(targets \ DOMAIN registry)
         IN IF nr_missing # 0 THEN [status |-> "panic"]
            ELSE [status |-> "ok", docs |-> registry,
                  SIDELOAD_NAMES |-> { sw[2] : sw \in { x \in switched : x[1] = "Sideload" } },
                  SYSLOAD_NAMES |-> { sw[2] : sw \in { x \in switched : x[1] = "Sysload" } }]

\* the sources corpora are drawn from: well-formed pages, a dangling Jump in a
\* body, in post_cmds and in a Group, an unknown and an empty Graph tag,
\* several pages for one id, and a source that does not parse
DocPool ==
    { RdDoc("index", <<Graph("RpsLat")>>, <<Prompt(4, Jump("a"))>>, <<>>),
      RdDoc("index", <<>>, <<Prompt(4, Jump("x"))>>, <<Jump("a")>>),
      RdDoc("a", <<Graph("")>>,
            <<Prompt(4, Jump("index")), Prompt(4, Toggle(Sideload("t1", "i1")))>>, <<>>),
      RdDoc("a", <<Off(Sw("HashdA"))>>, <<>>,
            <<Group(<<On(Sysload("t2", "i2")), Graph("Bogus")>>)>>),
      RdDoc("a", <<>>, <<Prompt(4, Group(<<Off(Sw("Oomd")), Jump("x")>>))>>, <<>>),
      RdDoc("a", <<On(Sw("HashdA"))>>, <<Prompt(4, Jump("index"))>>, <<>>),
      RdDoc("x", <<Jump("a")>>, <<>>, <<>>),
      Malformed }

MaxDocs == 3

RECURSIVE SeqsUpTo(_, _)
SeqsUpTo(S, n) ==
    IF n = 0 THEN {<<>>}
    ELSE LET shorter == SeqsUpTo(S, n - 1)
         IN shorter \cup { Append(q, x) : q \in { r \in shorter : Len(r) = n - 1 }, x \in S }

\* before DOCS is first used: nothing loaded, no machine
InitLoad ==
    /\ sources \in SeqsUpTo(DocPool, MaxDocs) \ {<<>>}
    /\ docs = Registry(<<>>)
    /\ st = [status |-> "unloaded"]
    /\ ref = [loaded |-> FALSE]
    /\ start = DefaultCmdState
    /\ trail = <<>>

\* DOCS is initialised: load_docs
Load ==
    /\ st.status = "unloaded"
    /\ LET res == load_docs(sources)
       IN IF res.status = "ok"
          THEN /\ docs' = res.docs
               /\ st' = Machine(DefaultCmdState, "", <<>>, WBPS)
               /\ ref' = [loaded |-> TRUE, SIDELOAD_NAMES |-> res.SIDELOAD_NAMES,
                          SYSLOAD_NAMES |-> res.SYSLOAD_NAMES]
          ELSE /\ st' = [status |-> "panic"]
               /\ UNCHANGED <<docs, ref>>
    /\ UNCHANGED <<sources, start, trail>>

\* the first layout shows the index: post_layout
FirstLayout ==
    /\ st.status = "ok" /\ st.cur_id = ""
    /\ st' \in post_layout(st)
    /\ trail' = <<InLayout>>
    /\ UNCHANGED <<docs, sources, ref, start>>

NextLoad == Load \/ FirstLayout

SpecLoad == InitLoad /\ [][NextLoad]_vars

\* every command of a document: its pre_cmds, the commands of its prompts, its
\* post_cmds, and the members of the Groups among them
CmdsOf(doc) ==
    LET top == { doc.pre_cmds[i] : i \in DOMAIN doc.pre_cmds }
               \cup { doc.body[i].cmd : i \in DOMAIN doc.body }
               \cup { doc.post_cmds[i] : i \in DOMAIN doc.post_cmds }
    IN top \cup UNION { { c.group[i] : i \in DOMAIN c.group } :
                        c \in { d \in top : d.op = "Group" } }

\* C9: loading succeeds only if every Jump target of every command of every
\* document is the id of a document of the corpus and every non-empty Graph
\* tag is a known graph tag.
C9_LoadedCorpusResolves ==
    ref.loaded =>
        \A i \in DOMAIN sources : \A c \in CmdsOf(sources[i]) :
            /\ c.op = "Jump" => \E j \in DOMAIN sources : sources[j].id = c.target
            /\ (c.op = "Graph" /\ c.tag # "") => c.tag \in GraphTags

\* a corpus of three pages is loaded, with a Jump among the entry commands,
\* Jumps on buttons, and a non-empty and an empty Graph tag
C9_Witness ==
    /\ ref.loaded
    /\ Len(sources) = 3
    /\ \E i \in DOMAIN sources : FirstJump(sources[i].pre_cmds) > 0
    /\ \E i \in DOMAIN sources : Graph("RpsLat") \in CmdsOf(sources[i])
    /\ \E i \in DOMAIN sources : Graph("") \in CmdsOf(sources[i])
    /\ ref.SIDELOAD_NAMES = {"t1"}

\* C10: loading a corpus in which two documents have the same id aborts
\* startup instead of producing a registry.
C10_DuplicateIdAborts ==
    (/\ st.status # "unloaded"
     /\ \E i, j \in DOMAIN sources : i < j /\ sources[i].id = sources[j].id)
    => ~ref.loaded

-----------------------------------------------------------------------------
(* SpecKnob: every slider at every position, for wide and narrow sliders and
   for small and large measured write bandwidths *)

\* a document with a slider for every knob, all behind prompts of one length
KnobDoc(id, prompt_len) ==
    RdDoc(id, <<>>, SetToSeq({ Prompt(prompt_len, Knob(k, Rat(-1, 1))) : k \in RdKnob }),
          <<>>)

KnobDocs ==
    [id \in {"wide", "mid", "narrow"} |->
        KnobDoc(id, CASE id = "wide" -> 0 [] id = "mid" -> 4 [] OTHER -> 9)]

\* bench.iocost.model.wbps: not measured yet, coarse, and far above any slider
WbpsValues == {0, 3, 8, 1000}

InitKnob ==
    /\ docs = KnobDocs
    /\ sources = <<>>
    /\ \E id \in DOMAIN KnobDocs, wbps \in WbpsValues, q \in BOOLEAN :
          \E m \in refresh_cur_doc(
                      Machine(StartCs(FALSE, [hc |-> 1, hn |-> 1, ic |-> 1, in |-> 1], q),
                              id, <<>>, wbps)) :
             st = Fresh(m)
    /\ ref = NoMachine
    /\ start = st.cs
    /\ trail = <<>>

\* a slider of the current document is moved to any of its slots
KnobSlide ==
    /\ st.status = "ok"
    /\ trail = <<>>
    /\ \E i \in DOMAIN CurDoc(st).body :
          LET cmd == CurDoc(st).body[i].cmd
              range == SliderRange(CurDoc(st).body[i].prompt_len)
          IN /\ IsSlider(CurDoc(st).body[i])
             /\ \E val \in 0..(range - 1) :
                   /\ st' \in exec_knob(
                          [Fresh(st) EXCEPT !.view[SliderName(cmd.knob)].value = val],
                          cmd, val, range)
                   /\ trail' = <<InSlide(cmd, val)>>
    /\ UNCHANGED <<docs, sources, ref, start>>

NextKnob == KnobSlide

SpecKnob == InitKnob /\ [][NextKnob]_vars

LogBpsKnobs == {"HashdALogBps", "HashdBLogBps"}

\* after the slide of knob k to slot v, the slider of k is at v and its
\* readout shows the ratio v / (range - 1)
RoundTrips(k, v) ==
    LET range == st.view[SliderName(k)].max_value
    IN /\ st.view[SliderName(k)].value = v
       /\ st.view[DigitName(k)] = format_knob_val(k, Rat(v, range - 1), st.wbps)

\* C11 as stated: for every knob, every slider range and every position, the
\* slide followed by reconciliation leaves the slider of the knob at the
\* position and its readout at the formatted ratio.
C11_KnobRoundTripEveryKnob ==
    (Len(trail) = 1 /\ trail[1].h = "slide" /\ st.status = "ok")
    => RoundTrips(trail[1].cmd.knob, trail[1].val)

\* C11: the round trip holds for every knob but the two log bandwidth knobs,
\* and for those whenever the measured write bandwidth is at least range - 1
\* bytes: log_bps is a whole number of bytes, so a coarser bandwidth cannot
\* tell the slots apart.
C11_KnobRoundTrip ==
    (Len(trail) = 1 /\ trail[1].h = "slide" /\ st.status = "ok")
    => LET k == trail[1].cmd.knob
           range == st.view[SliderName(k)].max_value
       IN (k \notin LogBpsKnobs \/ st.wbps >= range - 1)
          => RoundTrips(k, trail[1].val)

\* a log bandwidth slider moved to slot 2 of 7 with 8 bytes of bandwidth: 3
\* bytes are stored for the ratio 1/3, and the slider stays at slot 2
C11_Witness ==
    /\ trail = <<InSlide(Knob("HashdALogBps", Rat(-1, 1)), 2)>>
    /\ st.status = "ok" /\ st.wbps = 8
    /\ st.view[SliderName("HashdALogBps")].max_value = 7
    /\ st.cs.hashd[0].log_bps = 3
    /\ start.hashd[0].log_bps # 3
    /\ RoundTrips("HashdALogBps", 2)

-----------------------------------------------------------------------------
(* SpecRefresh: the reconciliation pass over Control States with knob values
   of every kind, run again with nothing changed *)

\* ratios a document's Knob command can carry besides those within [0, 1]
OverOne == {Rat(3, 2), Rat(100, 1)}
BelowZero == Rat(-1, 2)

\* a checkbox for every switch, a slider for every knob, and for every knob
\* buttons that store a ratio above 1 and a Group that stores one below 0 (a
\* Knob prompt with a negative ratio is a slider, not a button)
ExtremeDoc ==
    RdDoc("extreme", <<>>,
          SetToSeq({ Prompt(3, Toggle(sw)) : sw \in PanelToggles })
          \o SetToSeq({ Prompt(IF k \in {"HashdALoad", "HashdALogBps", "MemMargin"}
                                THEN 4 ELSE 9, Knob(k, Rat(-1, 1))) : k \in RdKnob })
          \o SetToSeq({ Prompt(5, Knob(k, v)) : k \in RdKnob, v \in OverOne })
          \o SetToSeq({ Prompt(5, Group(<<Knob(k, BelowZero)>>)) : k \in RdKnob }),
          <<>>)

InReconcile == [h |-> "reconcile"]

InitRefresh ==
    /\ docs = [id \in {"extreme"} |-> ExtremeDoc]
    /\ sources = <<>>
    /\ \E b \in BOOLEAN, wbps \in WbpsValues,
          k \in {[hc |-> 1, hn |-> 1, ic |-> 1, in |-> 1],
                 [hc |-> 0, hn |-> 1, ic |-> 0, in |-> 0]} :
          \E m \in refresh_cur_doc(Machine(StartCs(b, k, b), "extreme", <<>>, wbps)) :
             st = Fresh(m)
    /\ ref = st
    /\ start = st.cs
    /\ trail = <<>>

\* a button of the document is pressed: exec_cmd
ExtPress ==
    /\ st.status = "ok"
    /\ trail = <<>>
    /\ \E i \in DOMAIN CurDoc(st).body :
          LET para == CurDoc(st).body[i]
          IN /\ ~IsSlider(para) /\ ~IsCheckbox(para)
             /\ st' \in exec_cmd(Fresh(st), para.cmd)
             /\ trail' = <<InPress(para.cmd)>>
    /\ ref' = st
    /\ UNCHANGED <<docs, sources, start>>

\* the reconciliation runs once more: refresh_cur_doc; ref keeps the machine
\* as the pass before left it
Reconcile ==
    /\ st.status = "ok"
    /\ Len(trail) < 2
    /\ st' \in refresh_cur_doc(Fresh(st))
    /\ ref' = st
    /\ trail' = Append(trail, InReconcile)
    /\ UNCHANGED <<docs, sources, start>>

NextRefresh == ExtPress \/ Reconcile

SpecRefresh == InitRefresh /\ [][NextRefresh]_vars

\* the last step was a reconciliation pass on its own
Reconciled == trail # <<>> /\ trail[Len(trail)].h = "reconcile"

\* C12: the reconciliation pass completes from every Control State, and run
\* again with the Control State, the agent's counters and the document
\* unchanged it sets every toggle and knob widget to the value it had.
C12_ReconcileIdempotent ==
    Reconciled =>
        /\ st.status = "ok"
        /\ \E i \in DOMAIN st.log : st.log[i].ev = "reconcile"
        /\ ViewMatches(st)
        /\ (st.cs = ref.cs /\ st.cur_id = ref.cur_id) => st.view = ref.view

\* a second pass after a button stored 3/2 as a log bandwidth ratio with no
\* bandwidth measured: the same widgets, with a pending benchmark shown
C12_Witness ==
    /\ trail = <<InPress(Knob("HashdALogBps", Rat(3, 2))), InReconcile>>
    /\ st.wbps = 0
    /\ st.cs = ref.cs /\ st.view = ref.view
    /\ st.view[Sw("BenchHashd")]
    /\ st.view[Sw("BenchNeeded")]

\* C20: whatever ratio the Control State holds for a knob, the slider of the
\* knob is set within 0..range-1 and its readout shows a ratio within [0, 1].
C20_SliderWithinRange ==
    \A k \in CurDoc(st).knobs :
        LET c == Clamp01(KnobVal(st.cs, k, st.wbps))
            slider == st.view[SliderName(k)]
        IN /\ slider.value \in 0..(slider.max_value - 1)
           /\ Den(c) > 0 /\ 0 <= Num(c) /\ Num(c) <= Den(c)
           /\ st.view[DigitName(k)] = format_knob_val(k, c, st.wbps)

\* the Control State holds 3/2, the sentinel 100 or -1/2 for a knob after a
\* button, and the slider of that knob is at its last or first slot
C20_Witness ==
    /\ Len(trail) = 1 /\ trail[1].h = "press" /\ st.status = "ok"
    /\ \/ /\ trail[1].cmd = Knob("HashdBFile", Rat(3, 2))
          /\ st.cs.hashd[1].file_ratio = Rat(3, 2)
          /\ st.view[SliderName("HashdBFile")] = [max_value |-> 5, value |-> 4]
       \/ /\ trail[1].cmd = Knob("HashdAFileAddrStdev", Rat(3, 2))
          /\ st.cs.hashd[0].file_addr_stdev = Rat(100, 1)
          /\ st.view[SliderName("HashdAFileAddrStdev")] = [max_value |-> 5, value |-> 4]
       \/ /\ trail[1].cmd = Group(<<Knob("HashdALoad", BelowZero)>>)
          /\ st.cs.hashd[0].rps_target_ratio = BelowZero
          /\ st.view[SliderName("HashdALoad")] = [max_value |-> 7, value |-> 0]

-----------------------------------------------------------------------------
(* C13 *)

\* the positions where show_doc was entered
ShowAt(log) == { i \in DOMAIN log : log[i].ev = "show" }

\* the end of the part of the log that the show_doc entered at p wrote before
\* the next show_doc was entered
ShowEnd(log, p) ==
    IF \E q \in ShowAt(log) : q > p
    THEN (CHOOSE q \in ShowAt(log) : q > p /\ \A r \in ShowAt(log) : r > p => q <= r) - 1
    ELSE Len(log)

\* the step is a transition that completed: the handler began as
\* show_doc(_, true, _)
JumpStep ==
    /\ st'.log # <<>> /\ st'.log[1].ev = "show" /\ st'.log[1].jump
    /\ st'.status = "ok"

\* C13: on show(target, jump=true), every show_doc entered for the transition
\* first runs all post_cmds of the current document and only then the
\* pre_cmds of its target, in order, up to the first Jump; at that Jump
\* show_doc is entered for the Jump's document, the pre_cmds after the Jump
\* are not run, and the redirecting target is never installed as the current
\* document.
C13_ExitThenEntryUpToJump ==
    [][JumpStep =>
        \A p \in ShowAt(st'.log) :
            LET t == st'.log[p].target
                pre == docs[t].pre_cmds
                k == FirstJump(pre)
                e == ShowEnd(st'.log, p)
                part == SubSeq(st'.log, p, e)
            IN /\ CmdsRun(part) =
                     Flatten(CurDoc(st).post_cmds)
                     \o Flatten(IF k = 0 THEN pre ELSE SubSeq(pre, 1, k - 1))
               /\ k = 0 => (e = Len(st'.log) /\ st'.cur_id = t)
               /\ k > 0 =>
                     /\ e < Len(st'.log)
                     /\ st'.log[e + 1].target = pre[k].target
                     /\ st'.log[e + 1].jump
                     /\ st'.cur_id # t
                     /\ \A i \in DOMAIN st'.log :
                           st'.log[i].ev = "install" => st'.log[i].doc # t]_vars

\* from a, the button to the index: the index redirects back to a after its
\* first entry command, and a is shown again
C13_Witness ==
    /\ docs = RedirectDocs
    /\ trail = <<InShow("index", FALSE)>>
    /\ st.status = "ok" /\ st.cur_id = "a" /\ st.doc_hist = <<"a">>
    /\ CmdsRun(st.log) = <<Graph(""), Graph("HashdA"), Graph("")>>
    /\ Cardinality(ShowAt(st.log)) = 2

-----------------------------------------------------------------------------
(* Groups and misdirected commands: st presses a Group button and ref runs
   the members one handler at a time, or a widget handler is called with a
   command of any kind *)

GroupCmds ==
    { Group(<<On(Sw("HashdA")), Knob("HashdALoad", Rat(1, 2))>>),
      Group(<<On(Sw("BenchHashd")), Off(Sw("Oomd"))>>),
      Group(<<Off(Sw("MemResCtl")), Jump("groups"), On(Sw("Oomd"))>>),
      Group(<<Knob("Balloon", Rat(1, 2)), Reset("Secondaries"),
              Toggle(Sw("Oomd")), Graph("")>>),
      Group(<<Group(<<On(Sw("HashdA"))>>), Off(Sw("HashdA"))>>),
      Group(<<>>) }

\* a document with a button for every Group of GroupCmds, and two widgets
GroupDoc ==
    RdDoc("groups", <<>>,
          <<Prompt(3, Toggle(Sw("HashdA"))), Prompt(4, Knob("HashdALoad", Rat(-1, 1)))>>
          \o SetToSeq({ Prompt(5, c) : c \in GroupCmds }),
          <<>>)

InitGroup ==
    /\ docs = [id \in {"groups"} |-> GroupDoc]
    /\ sources = <<>>
    /\ \E cs \in StartStates :
          \E m \in refresh_cur_doc(Machine(cs, "groups", <<>>, WBPS)) : st = Fresh(m)
    /\ ref = st
    /\ start = st.cs
    /\ trail = <<>>

\* a Group button is pressed: exec_cmd
PressGroup ==
    /\ trail = <<>>
    /\ \E i \in DOMAIN CurDoc(st).body :
          LET cmd == CurDoc(st).body[i].cmd
          IN /\ cmd.op = "Group"
             /\ st' \in exec_cmd(Fresh(st), cmd)
             /\ trail' = <<InPress(cmd)>>
    /\ UNCHANGED <<docs, sources, ref, start>>

\* the next member of that Group is run on its own: exec_one_cmd
RunMember ==
    /\ trail # <<>> /\ trail[1].h = "press"
    /\ ref.status = "ok"
    /\ Len(trail) <= Len(trail[1].cmd.group)
    /\ LET cmd == trail[1].cmd.group[Len(trail)]
       IN /\ ref' \in exec_one_cmd(ref, cmd)
          /\ trail' = Append(trail, InPress(cmd))
    /\ UNCHANGED <<docs, sources, st, start>>

\* the commands the widget handlers are called with
HandlerCmds ==
    { Toggle(Sw("Oomd")), On(Sw("Oomd")), Off(Sw("HashdA")),
      Knob("HashdALoad", Rat(-1, 1)), Knob("Balloon", Rat(1, 2)),
      Graph("RpsLat"), Reset("All"), Jump("groups"),
      Group(<<Off(Sw("Oomd"))>>) }

\* exec_toggle is called with a command and a value
CallToggle ==
    /\ trail = <<>>
    /\ \E cmd \in HandlerCmds, val \in BOOLEAN :
          /\ st' \in exec_toggle(Fresh(st), cmd, val)
          /\ trail' = <<InCheck(cmd, val)>>
    /\ UNCHANGED <<docs, sources, ref, start>>

\* exec_knob is called with a command, a slot and the range of a slider
CallKnob ==
    /\ trail = <<>>
    /\ \E cmd \in HandlerCmds, range \in {SliderRange(4)} :
          \E val \in {0, range - 1} :
              /\ st' \in exec_knob(Fresh(st), cmd, val, range)
              /\ trail' = <<InSlide(cmd, val)>>
    /\ UNCHANGED <<docs, sources, ref, start>>

NextGroup == PressGroup \/ RunMember \/ CallToggle \/ CallKnob

SpecGroup == InitGroup /\ [][NextGroup]_vars

\* the members have all been run on their own, or one of them panicked
MembersDone ==
    /\ trail # <<>> /\ trail[1].h = "press"
    /\ ref.status = "panic" \/ Len(trail) = 1 + Len(trail[1].cmd.group)

\* what the agent answered during a run: the results of sync() and apply()
\* and the counters each refresh read
Answers(log) ==
    LET IsAnswer(e) == e.ev \in {"sync", "apply", "refresh"}
        answers == SelectSeq(log, IsAnswer)
    IN [i \in DOMAIN answers |->
           IF answers[i].ev = "refresh"
           THEN <<answers[i].cs.bench_hashd_cur, answers[i].cs.bench_iocost_cur>>
           ELSE <<answers[i].ok>>]

\* the positions of the steps of one kind
EvAt(log, name) == { i \in DOMAIN log : log[i].ev = name }

\* C14: executing a Group c1..cn is the same as executing c1, ..., cn one
\* after another, each with its own apply() and reconciliation: the same
\* commands are entered, and under the same answers of the agent the same
\* steps are taken and the same Control State, widgets and status result; if
\* member k panics, members 1..k-1 were each mutated, applied and reconciled
\* and Control State keeps what the last of them wrote.
C14_GroupIsSequence ==
    MembersDone =>
        LET g == trail[1].cmd.group
            k == Cardinality(ExecAt(st.log))
            muts == EvAt(st.log, "mutate")
            applies == EvAt(st.log, "apply")
        IN /\ CmdsRun(st.log) = CmdsRun(ref.log)
           /\ st.status = ref.status
           /\ Answers(st.log) = Answers(ref.log) => st = ref
           /\ st.status = "ok" => CmdsRun(st.log) = g
           /\ st.status = "panic" =>
                /\ g[k].op \in {"Jump", "Toggle", "Group"}
                /\ CmdsRun(st.log) = SubSeq(g, 1, k)
                /\ Cardinality(muts) = k - 1
                /\ Cardinality(applies) = k - 1
                /\ Cardinality(EvAt(st.log, "reconcile")) = k - 1
                /\ \A i \in muts :
                      \E j \in applies :
                          /\ j > i /\ st.log[j].cs = st.log[i].cs
                          /\ \A h \in muts : ~(i < h /\ h < j)
                /\ \A i \in muts :
                      (\A h \in muts : h <= i) => SameDesired(st.cs, st.log[i].cs)
                /\ muts = {} => st.cs = start

\* the Group with a Jump as second member was pressed and its members were
\* run on their own: both panicked with memory protection switched off
C14_Witness ==
    /\ trail = <<InPress(Group(<<Off(Sw("MemResCtl")), Jump("groups"), On(Sw("Oomd"))>>)),
                 InPress(Off(Sw("MemResCtl"))), InPress(Jump("groups"))>>
    /\ st.status = "panic" /\ ref.status = "panic"
    /\ start.mem /\ ~st.cs.mem
    /\ Answers(st.log) = Answers(ref.log)

-----------------------------------------------------------------------------
(* C15 *)

\* exec_one_cmd was entered for cmd on ref in this step
EntersOne(cmd) ==
    /\ ref' # ref
    /\ trail'[Len(trail')].cmd = cmd

\* exec_toggle or exec_knob was called with cmd in this step
CallsHandler(h, cmd) ==
    /\ trail = <<>> /\ trail' # <<>>
    /\ trail'[1].h = h /\ trail'[1].cmd = cmd

\* C15: exec_one_cmd entered with a Jump, a Toggle or a Group, exec_toggle
\* called with a command that is no Toggle and exec_knob called with a command
\* that is no Knob panic; Control State and the widgets are as before, sync()
\* and apply() are not called and no reconciliation is run.
C15_MisdirectedCommandPanics ==
    [][/\ \A cmd \in UNION { {g[i] : i \in DOMAIN g} : g \in {c.group : c \in GroupCmds} } :
            (EntersOne(cmd) /\ cmd.op \in {"Jump", "Toggle", "Group"}) =>
                /\ ref'.status = "panic"
                /\ ref'.cs = ref.cs /\ ref'.view = ref.view
                /\ ref'.log = ref.log \o <<EvExec(cmd), EvLock, EvPanic>>
       /\ \A cmd \in HandlerCmds :
            (\/ CallsHandler("check", cmd) /\ cmd.op # "Toggle"
             \/ CallsHandler("slide", cmd) /\ cmd.op # "Knob") =>
                /\ st'.status = "panic"
                /\ st'.cs = st.cs /\ st'.view = st.view
                /\ st'.log = <<EvPanic>>]_vars

\* exec_toggle was called with an On command: the program panicked with the
\* switch as it was
C15_Witness ==
    /\ trail = <<InCheck(On(Sw("Oomd")), TRUE)>>
    /\ st.status = "panic" /\ st.cs = start /\ ~st.cs.oomd

\* a Toggle reached exec_one_cmd after two members of its Group had run
ToggleReachedInterpreter ==
    /\ Len(trail) = 4 /\ trail[4] = InPress(Toggle(Sw("Oomd")))
    /\ ref.status = "panic" /\ Cardinality(EvAt(ref.log, "apply")) = 2

-----------------------------------------------------------------------------
(* C16 *)

\* the items in which two Control States differ: a scalar field, a field of
\* one workload, the entry of one tag in one of the two maps
Changed(a, b) ==
    { <<f>> : f \in { g \in DOMAIN a \ {"hashd", "sideloads", "sysloads"} : a[g] # b[g] } }
    \cup { <<"hashd", x[1], x[2]>> :
              x \in { y \in (0..1) \X DOMAIN a.hashd[0] :
                         a.hashd[y[1]][y[2]] # b.hashd[y[1]][y[2]] } }
    \cup { <<x[1], x[2]>> :
              x \in { y \in {"sideloads", "sysloads"} \X Tags :
                         \/ (y[2] \in DOMAIN a[y[1]]) # (y[2] \in DOMAIN b[y[1]])
                         \/ /\ y[2] \in DOMAIN a[y[1]] /\ y[2] \in DOMAIN b[y[1]]
                            /\ a[y[1]][y[2]] # b[y[1]][y[2]] } }

\* the items of Control State a switch stands for
ItemsOf(sw) ==
    CASE sw[1] \in {"BenchHashd", "BenchHashdLoop"} -> {<<"bench_hashd_next">>}
      [] sw[1] = "BenchIoCost" -> {<<"bench_iocost_next">>}
      [] sw[1] = "BenchNeeded" -> {<<"bench_hashd_next">>, <<"bench_iocost_next">>}
      [] sw[1] = "HashdA" -> {<<"hashd", 0, "active">>}
      [] sw[1] = "HashdB" -> {<<"hashd", 1, "active">>}
      [] sw[1] = "Sideload" -> {<<"sideloads", sw[2]>>}
      [] sw[1] = "Sysload" -> {<<"sysloads", sw[2]>>}
      [] sw[1] = "CpuResCtl" -> {<<"cpu">>}
      [] sw[1] = "MemResCtl" -> {<<"mem">>}
      [] sw[1] = "IoResCtl" -> {<<"io">>}
      [] sw[1] = "Oomd" -> {<<"oomd">>}
      [] sw[1] = "OomdWorkMemPressure" -> {<<"oomd_work_mempress">>}
      [] sw[1] = "OomdWorkSenpai" -> {<<"oomd_work_senpai">>}
      [] sw[1] = "OomdSysMemPressure" -> {<<"oomd_sys_mempress">>}
      [] sw[1] = "OomdSysSenpai" -> {<<"oomd_sys_senpai">>}

\* the first handler of the scenario was an Enable or a Disable (from a button
\* or a checkbox), and it has run
SwitchRan ==
    /\ Len(trail) = 1 /\ st.status = "ok"
    /\ st.log # <<>> /\ st.log[1].ev = "exec" /\ st.log[1].cmd.op \in {"On", "Off"}
    /\ Cardinality(ExecAt(st.log)) = 1

\* what the command wrote: the items changed between the state it started from
\* and the state it applied
Written == UNION { Changed(start, st.log[i].cs) : i \in EvAt(st.log, "apply") }

\* C16 as claimed: Enable(s) or Disable(s) changes at most one item of Control
\* State, an item of s, and leaves every other item unchanged; after the
\* handler Control State differs from what was applied only in the counters
\* the agent reports.
C16_SwitchWritesOneItemEverySwitch ==
    SwitchRan =>
        /\ Cardinality(Written) <= 1
        /\ Written \subseteq ItemsOf(st.log[1].cmd.sw)
        /\ \A i \in EvAt(st.log, "apply") : SameDesired(st.cs, st.log[i].cs)

\* C16 as amended: the same for every Switch other than BenchNeeded;
\* Enable(BenchNeeded) or Disable(BenchNeeded) changes at most the two
\* requested-run counters and nothing else.
C16_SwitchWritesOneItem ==
    SwitchRan =>
        /\ st.log[1].cmd.sw[1] # "BenchNeeded" => Cardinality(Written) <= 1
        /\ Written \subseteq ItemsOf(st.log[1].cmd.sw)
        /\ \A i \in EvAt(st.log, "apply") : SameDesired(st.cs, st.log[i].cs)

\* the sideload of tag t1 was switched on while t2 was running: the entry of
\* t1 is the one item written, and t2 is as it was
C16_Witness ==
    /\ Ran(<<InPress(On(Sideload("t1", "i1")))>>)
    /\ "t2" \in DOMAIN start.sideloads
    /\ st.cs.sideloads = MapInsert(start.sideloads, "t1", "i1")
    /\ Written = {<<"sideloads", "t1">>}

-----------------------------------------------------------------------------
(* C17 *)

\* how many CMD_STATE guards are alive after step i of a log
Held(log, i) ==
    Cardinality({ j \in 1..i : log[j].ev = "lock" })
    - Cardinality({ j \in 1..i : log[j].ev = "unlock" })

\* C17: the CMD_STATE lock is taken before a command's sync() and mutation
\* and held until after its apply(), then released before the reconciliation
\* pass, which takes the lock itself and releases it; the lock is never
\* requested while it is held, and a handler that completes holds nothing.
C17_LockDiscipline ==
    LET log == st.log
    IN /\ \A i \in DOMAIN log :
            /\ log[i].ev = "lock" => Held(log, i - 1) = 0
            /\ log[i].ev = "unlock" => Held(log, i - 1) = 1
            /\ log[i].ev \in {"sync", "mutate", "apply", "refresh", "reconcile"} =>
                  Held(log, i) = 1
       /\ \A i \in ExecAt(log) :
            LET seg == Seg(log, i)
            IN \A a \in EvIn(log, seg, "apply") :
                  /\ log[i + 1].ev = "lock"
                  /\ \A j \in (i + 2)..a : log[j].ev # "unlock" /\ log[j].ev # "lock"
                  /\ \E m \in EvIn(log, seg, "mutate") : m < a
                  /\ log[a + 1].ev = "unlock"
                  /\ log[a + 2].ev = "lock"
                  /\ \A r \in EvIn(log, seg, "refresh") \cup EvIn(log, seg, "reconcile") :
                        r > a + 2
                  /\ Cardinality(EvIn(log, seg, "reconcile")) = 1
       /\ st.status = "ok" => Held(log, Len(log)) = 0

\* a Group of two commands has run: the lock was taken and released four
\* times, twice by the commands and twice by their reconciliation passes
C17_Witness ==
    /\ Ran(<<InPress(Group(<<On(Sw("HashdA")), Knob("HashdALoad", Rat(1, 2))>>))>>)
    /\ Cardinality(EvAt(st.log, "lock")) = 4
    /\ Cardinality(EvAt(st.log, "unlock")) = 4
    /\ Cardinality(EvAt(st.log, "apply")) = 2

-----------------------------------------------------------------------------
(* C18 *)

\* C18: Reset(HashdParams) sets every parameter of both workloads to its
\* default, keeps both active flags and changes nothing outside cs.hashd;
\* Reset(Hashds) sets both active flags to false, keeps every parameter and
\* changes nothing outside cs.hashd. This is the state handed to apply(), and
\* the state the handler leaves differs from it only in the counters the agent
\* reports.
C18_WorkloadResets ==
    \A r \in {"HashdParams", "Hashds"} :
        Ran(<<InPress(Reset(r))>>) =>
            /\ Cardinality(EvAt(st.log, "apply")) = 1
            /\ \A a \in EvAt(st.log, "apply") :
                  LET cs == st.log[a].cs
                  IN /\ [cs EXCEPT !.hashd = start.hashd] = start
                     /\ SameDesired(st.cs, cs)
                     /\ \A i \in 0..1 :
                           cs.hashd[i] =
                              IF r = "HashdParams"
                              THEN HashdCmd(start.hashd[i].active, DFL_HASHD)
                              ELSE [start.hashd[i] EXCEPT !.active = FALSE]

\* Reset(HashdParams) has run on two active workloads with tweaked parameters
\* and other loads running: the parameters are the defaults, the workloads
\* are still active
C18_Witness ==
    /\ Ran(<<InPress(Reset("HashdParams"))>>)
    /\ start.hashd[0].active /\ start.hashd[1].mem_ratio = Rat(3, 4)
    /\ "t2" \in DOMAIN start.sysloads
    /\ st.cs.hashd[0].active /\ st.cs.hashd[1].active
    /\ st.cs.hashd[1].mem_ratio = None
    /\ st.cs.sysloads = start.sysloads

-----------------------------------------------------------------------------
(* C19 *)

\* the show_doc within which step i of a log was taken
ShowOf(log, i) ==
    CHOOSE p \in ShowAt(log) : p <= i /\ \A q \in ShowAt(log) : q <= p \/ q > i

\* C19: DOC_HIST grows only within a show_doc entered with jump and without
\* back while a document is current, and by exactly the id of that document;
\* apart from the entry the 'b' key pops, nothing else changes it. The first
\* show_doc("index", true, false), from the empty current id, pushes nothing.
\* A show_doc entered without jump runs no command, calls neither sync() nor
\* apply(), and leaves DOC_HIST, the current id and Control State (but for
\* the counters the agent reports) as they were.
C19_HistoryGrowth ==
    [][st'.log # <<>> =>
        LET log == st'.log
            pushes == EvAt(log, "push")
            kept == IF BackStep THEN SubSeq(st.doc_hist, 1, Len(st.doc_hist) - 1)
                    ELSE st.doc_hist
        IN /\ log[1].ev = "show"
           /\ \A i \in pushes :
                 /\ log[ShowOf(log, i)].jump /\ ~log[ShowOf(log, i)].back
                 /\ st.cur_id # "" /\ log[i].doc = st.cur_id
           /\ Cardinality(pushes) <= 1
           /\ st'.doc_hist = IF pushes = {} THEN kept ELSE Append(kept, st.cur_id)
           /\ Len(st'.doc_hist) > Len(st.doc_hist) =>
                 /\ pushes # {} /\ ~BackStep
                 /\ st'.doc_hist = Append(st.doc_hist, st.cur_id)
           /\ st.cur_id = "" =>
                 /\ log[1] = EvShow("index", TRUE, FALSE)
                 /\ pushes = {} /\ st'.doc_hist = <<>>
           /\ ~log[1].jump =>
                 /\ \A i \in DOMAIN log : log[i].ev \notin {"exec", "sync", "apply", "push"}
                 /\ Cardinality(ShowAt(log)) = 1
                 /\ st'.doc_hist = st.doc_hist
                 /\ st'.cur_id = st.cur_id /\ log[1].target = st.cur_id
                 /\ SameDesired(st'.cs, st.cs)]_vars

\* the layout was rebuilt with a shown and the index on the history: a was
\* shown again without jump, and its entry command was not run again
C19_Witness ==
    /\ docs = GuideDocs
    /\ trail = <<InLayout>>
    /\ st.status = "ok" /\ st.cur_id = "a" /\ st.doc_hist = <<"index">>
    /\ st.log[1] = EvShow("a", FALSE, FALSE)
    /\ CmdsRun(st.log) = <<>>

-----------------------------------------------------------------------------
(* C21 *)

\* a checkbox was changed and its handler has run
CheckRan == Len(trail) = 1 /\ trail[1].h = "check" /\ st.status = "ok"

\* the one command the handler executed is the Enable or Disable of the
\* checkbox's switch that the chosen value asks for
ConvertedToCommand ==
    /\ Cardinality(ExecAt(st.log)) = 1
    /\ st.log[1] = EvExec(IF trail[1].val THEN On(trail[1].cmd.sw)
                          ELSE Off(trail[1].cmd.sw))

\* C21 as claimed: for every Switch with a checkbox in the current document,
\* a change to v executes Enable when v is true and Disable when v is false,
\* and unless the agent's counters advance before the reconciliation reads
\* them the checkbox is left at v.
C21_CheckboxKeepsChoiceEverySwitch ==
    CheckRan =>
        /\ ConvertedToCommand
        /\ ~AgentAdvanced(st) => st.view[SwitchName(trail[1].cmd.sw)] = trail[1].val

\* C21 as amended: the same for every Switch other than BenchNeeded, whose
\* checkbox is set to whether one of the two benchmarks has never completed,
\* whatever was chosen.
C21_CheckboxKeepsChoice ==
    CheckRan =>
        /\ ConvertedToCommand
        /\ (~AgentAdvanced(st) /\ trail[1].cmd.sw[1] # "BenchNeeded") =>
              st.view[SwitchName(trail[1].cmd.sw)] = trail[1].val
        /\ trail[1].cmd.sw[1] = "BenchNeeded" =>
              st.view[SwitchName(trail[1].cmd.sw)] =
                 (st.cs.bench_hashd_cur = 0 \/ st.cs.bench_iocost_cur = 0)

\* the checkbox of the hashd benchmark was ticked with no run pending, the
\* agent has not completed the run yet, and the checkbox stays ticked
C21_Witness ==
    /\ Ran(<<InCheck(Toggle(Sw("BenchHashd")), TRUE)>>)
    /\ start.bench_hashd_next = start.bench_hashd_cur
    /\ ~AgentAdvanced(st)
    /\ st.view[SwitchName(Sw("BenchHashd"))]

-----------------------------------------------------------------------------
(* C22 *)

\* the entry commands the show_doc calls of a log are to run: for each call,
\* from step i on, the pre_cmds of its target before the first Jump
RECURSIVE EntryCmds(_, _)
EntryCmds(log, i) ==
    IF i > Len(log) THEN <<>>
    ELSE (IF log[i].ev = "show"
          THEN LET pre == docs[log[i].target].pre_cmds
                   k == FirstJump(pre)
               IN Flatten(IF k = 0 THEN pre ELSE SubSeq(pre, 1, k - 1))
          ELSE <<>>)
         \o EntryCmds(log, i + 1)

\* C22: in a transition that completes, the post_cmds of the document left
\* are run exactly once, also when pre_cmds redirect the transition: the
\* commands run are those post_cmds, once, followed by the entry commands of
\* the targets.
C22_ExitCommandsOnce ==
    [][JumpStep =>
          CmdsRun(st'.log) = Flatten(CurDoc(st).post_cmds) \o EntryCmds(st'.log, 1)]_vars

-----------------------------------------------------------------------------
(* C23 *)

\* C23: over a corpus load_docs accepts, show_doc entered with jump returns
\* (unless one of the commands it runs panics): exactly one document is
\* installed as the current one, and one reconciliation pass follows the
\* installation, whatever Jumps the pre_cmds hold.
C23_ShowTerminates ==
    (/\ st.log # <<>> /\ st.log[1].ev = "show" /\ st.log[1].jump
     /\ st.status # "panic") =>
        /\ st.status = "ok"
        /\ Cardinality(EvAt(st.log, "install")) = 1
        /\ \A i \in EvAt(st.log, "install") :
              /\ st.cur_id = st.log[i].doc
              /\ Cardinality({ j \in EvAt(st.log, "reconcile") : j > i }) = 1

-----------------------------------------------------------------------------
(* C24 *)

\* how many read guards and write guards on CUR_DOC are alive after step i
ReadsHeld(log, i) ==
    Cardinality({ j \in 1..i : log[j].ev = "read" })
    - Cardinality({ j \in 1..i : log[j].ev = "unread" })

WritesHeld(log, i) ==
    Cardinality({ j \in 1..i : log[j].ev = "write" })
    - Cardinality({ j \in 1..i : log[j].ev = "unwrite" })

\* C24: CUR_DOC.write() is requested only with no guard on CUR_DOC alive, on
\* every path of show_doc; every CUR_DOC.read(), those of the nested
\* refresh_cur_doc included, is requested with no write guard alive; the
\* document is installed under the write guard; show_doc returns with no
\* guard alive.
C24_CurDocLockOrder ==
    LET log == st.log
    IN /\ \A i \in DOMAIN log :
            /\ log[i].ev = "write" =>
                  ReadsHeld(log, i - 1) = 0 /\ WritesHeld(log, i - 1) = 0
            /\ log[i].ev = "read" => WritesHeld(log, i - 1) = 0
            /\ log[i].ev = "unread" => ReadsHeld(log, i - 1) >= 1
            /\ log[i].ev = "unwrite" => WritesHeld(log, i - 1) = 1
            /\ log[i].ev = "install" =>
                  WritesHeld(log, i) = 1 /\ ReadsHeld(log, i) = 0
       /\ st.status = "ok" =>
            ReadsHeld(log, Len(log)) = 0 /\ WritesHeld(log, Len(log)) = 0

\* from the index to r, which redirects to b: reconciliation passes read
\* CUR_DOC under show_doc's own read guard, two calls of show_doc took and
\* dropped a read guard, and b was installed under the write guard
C24_Witness ==
    /\ docs = GuideDocs
    /\ trail = <<InShow("r", FALSE)>>
    /\ st.status = "ok" /\ st.cur_id = "b"
    /\ Cardinality(ShowAt(st.log)) = 2
    /\ \E i \in DOMAIN st.log : ReadsHeld(st.log, i) = 2
    /\ Cardinality(EvAt(st.log, "write")) = 1

-----------------------------------------------------------------------------
(* C25 *)

\* the step is the 'b' key
BackKey == st' # st /\ trail' # <<>> /\ trail'[1].h = "show" /\ trail'[1].back

\* C25: after every step of navigation every entry of DOC_HIST is the
\* non-empty id of a document of the corpus; an id is pushed only while it is
\* the id of the current document; and the 'b' key on a non-empty history
\* enters show_doc for the id on top, which is found in DOCS.
C25_HistoryEntriesValid ==
    [][/\ \A i \in DOMAIN st'.doc_hist :
             st'.doc_hist[i] # "" /\ st'.doc_hist[i] \in DOMAIN docs
       /\ \A i \in EvAt(st'.log, "push") :
             /\ st'.log[i].doc = st.cur_id
             /\ st.cur_id \in DOMAIN docs
             /\ st'.doc_hist[Len(st'.doc_hist)] = st.cur_id
       /\ BackKey =>
             /\ st.doc_hist[Len(st.doc_hist)] \in DOMAIN docs
             /\ st'.log[1] = EvShow(st.doc_hist[Len(st.doc_hist)], TRUE, TRUE)]_vars

\* index, a and b were shown in turn and the 'b' key was pressed: the id on
\* top of the history was found and a is current again, with the index left
\* on the history
C25_Witness ==
    /\ docs = GuideDocs
    /\ trail = <<InShow("a", TRUE)>>
    /\ st.status = "ok" /\ st.cur_id = "a" /\ st.doc_hist = <<"index">>
    /\ st.log[1] = EvShow("a", TRUE, TRUE)

====
